---- MODULE Spec2Model ----
(***************************************************************************)
(* A model of angr's decompiler condition processor                        *)
(* (angr/analyses/decompiler/condition_processor.py): the bridge between   *)
(* AIL expressions and claripy terms, the edge predicate extractor, the    *)
(* reaching/guarding condition solver and the boolean rewrite passes; and  *)
(* of the resilience wrapper of an analysis (angr/analyses/analysis.py).   *)
(*                                                                         *)
(* claripy terms are records [op, args, name, val, bits]; a symbol's name  *)
(* is the string the code formats for it.  AIL expressions are records     *)
(* [kind, op, signed, operands, bits, idx, frm].                           *)
(***************************************************************************)
EXTENDS Integers, Sequences, FiniteSets, TLC

(***************************************************************************)
(* Bounds of the model.                                                    *)
(***************************************************************************)
\* most conjuncts of an And arm among the rewrite passes' inputs
MaxConj == 3
\* most arms of an Or among the rewrite passes' inputs
MaxArms == 3
\* most claripy_ast_from_ail_condition calls on one processor
MaxBridgeCalls == 2
\* nodes of a region graph
NNodes == 4
\* most entries of a case-entry map
MaxCases == 2
\* most exception edges of a region graph
MaxExc == 2
\* most recover_reaching_conditions calls on one region
MaxRuns == 2
\* most analysis instances made through the factory
MaxInstances == 2
\* most _resilience blocks entered
MaxBlocks == 3

(***************************************************************************)
(* claripy terms.                                                          *)
(***************************************************************************)
Term(op, args, name, val, bits) ==
    [op |-> op, args |-> args, name |-> name, val |-> val, bits |-> bits]

\* what a pass returns when it has nothing to rewrite (Python's None)
None == Term("None", <<>>, "", 0, 0)

BoolV(b) == Term("BoolV", <<>>, "", IF b THEN 1 ELSE 0, 0)

ClTrue == BoolV(TRUE)

ClFalse == BoolV(FALSE)

BoolS(n) == Term("BoolS", <<>>, n, 0, 0)

BVS(n, bits) == Term("BVS", <<>>, n, 0, bits)

BVV(v, bits) == Term("BVV", <<>>, "", v, bits)

\* an operator node built without claripy's simplifiers
Mk(op, args) == Term(op, args, "", 0, 0)

IsTrue(t) == t.op = "BoolV" /\ t.val = 1

IsFalse(t) == t.op = "BoolV" /\ t.val = 0

SeqMember(x, s) == \E i \in 1..Len(s) : s[i] = x

\* the first occurrence of every element, in order (an ordered set)
Dedup(s) ==
    LET first == SelectSeq([i \in 1..Len(s) |-> i],
                           LAMBDA i : \A j \in 1..(i - 1) : s[j] # s[i])
    IN [k \in 1..Len(first) |-> s[first[k]]]

RECURSIVE Flatten(_, _)
\* the arguments of the op-nodes among s spliced in place
Flatten(op, s) ==
    IF s = <<>> THEN <<>>
    ELSE (IF Head(s).op = op THEN Head(s).args ELSE <<Head(s)>>)
         \o Flatten(op, Tail(s))

\* s without the constants of value v
DropConst(v, s) == SelectSeq(s, LAMBDA e : ~(e.op = "BoolV" /\ e.val = v))

\* claripy.And / claripy.Or with the constructor's simplifier: a constant
\* decides or is dropped, nested nodes of the same operator are flattened
\* (and then de-duplicated), one remaining argument is returned as it is.
ClNary(op, unit, zero, args) ==
    IF Len(args) = 1 THEN args[1]
    ELSE IF \E i \in 1..Len(args) : args[i] = zero THEN zero
    ELSE LET kept == DropConst(unit.val, args)
             flat == IF \E i \in 1..Len(kept) : kept[i].op = op
                     THEN Dedup(Flatten(op, kept))
                     ELSE kept
         IN IF flat = <<>> THEN unit
            ELSE IF Len(flat) = 1 THEN flat[1]
            ELSE Mk(op, flat)

ClAnd(args) == ClNary("And", ClTrue, ClFalse, args)

ClOr(args) == ClNary("Or", ClFalse, ClTrue, args)

\* claripy.Not with the constructor's simplifier
ClNot(t) ==
    IF t.op = "BoolV" THEN BoolV(t.val = 0)
    ELSE IF t.op = "Not" THEN t.args[1]
    ELSE IF t.op = "__eq__" THEN [t EXCEPT !.op = "__ne__"]
    ELSE IF t.op = "__ne__" THEN [t EXCEPT !.op = "__eq__"]
    ELSE Mk("Not", <<t>>)

\* a == b on two bit-vectors
ClEq(a, b) == Mk("__eq__", <<a, b>>)

RECURSIVE Variables(_)
\* ast.variables: the names of the symbols of a term
Variables(t) ==
    IF t.op \in {"BoolS", "BVS"} THEN {t.name}
    ELSE UNION {Variables(t.args[i]) : i \in 1..Len(t.args)}

RECURSIVE Depth(_)
\* ast.depth
Depth(t) ==
    IF Len(t.args) = 0 THEN 1
    ELSE 1 + (CHOOSE d \in {Depth(t.args[i]) : i \in 1..Len(t.args)} :
                 \A e \in {Depth(t.args[i]) : i \in 1..Len(t.args)} : e <= d)

(***************************************************************************)
(* The satisfiability oracle, by enumeration.  A valuation gives every     *)
(* symbol a number: a boolean symbol is true when it is 1, a comparison of *)
(* a bit-vector symbol with a constant reads the symbol's number.          *)
(***************************************************************************)
RECURSIVE Consts(_)
Consts(t) ==
    IF t.op = "BVV" THEN {t.val}
    ELSE UNION {Consts(t.args[i]) : i \in 1..Len(t.args)}

RECURSIVE BoolNames(_)
BoolNames(t) ==
    IF t.op = "BoolS" THEN {t.name}
    ELSE UNION {BoolNames(t.args[i]) : i \in 1..Len(t.args)}

\* the valuations that can tell the terms of ts apart
Valuations(ts) ==
    LET names == UNION {Variables(t) : t \in ts}
        bools == UNION {BoolNames(t) : t \in ts}
        nums  == UNION {Consts(t) : t \in ts} \cup {-1}
    IN {[n \in names |-> IF n \in bools THEN b[n] ELSE w[n]] :
           b \in [bools -> {0, 1}], w \in [names \ bools -> nums]}

RECURSIVE Eval(_, _)
Eval(t, v) ==
    CASE t.op = "BoolV" -> t.val = 1
      [] t.op = "BoolS" -> v[t.name] = 1
      [] t.op = "Not" -> ~Eval(t.args[1], v)
      [] t.op = "And" -> \A i \in 1..Len(t.args) : Eval(t.args[i], v)
      [] t.op = "Or" -> \E i \in 1..Len(t.args) : Eval(t.args[i], v)
      [] t.op = "__eq__" -> v[t.args[1].name] = t.args[2].val
      [] t.op = "__ne__" -> v[t.args[1].name] # t.args[2].val

Satisfiable(t) == \E v \in Valuations({t}) : Eval(t, v)

\* no valuation tells a from b
Equivalent(a, b) == \A v \in Valuations({a, b}) : Eval(a, v) = Eval(b, v)

\* a and b are not both true
Exclusive(a, b) == \A v \in Valuations({a, b}) : ~(Eval(a, v) /\ Eval(b, v))

(***************************************************************************)
(* Boolean minimisation: simplify_condition and the sympy round trip.      *)
(***************************************************************************)
depth_limit == 8

variables_limit == 8

_UNIFIABLE_COMPARISONS == {"__ne__", "__gt__", "__ge__", "UGT", "UGE", "SGT", "SGE"}

_INVERSE_OPERATIONS ==
    [o \in {"__eq__", "__ne__", "__gt__", "__lt__", "__ge__", "__le__",
            "ULT", "UGE", "UGT", "ULE", "SLT", "SGE", "SLE", "SGT"} |->
        CASE o = "__eq__" -> "__ne__" [] o = "__ne__" -> "__eq__"
          [] o = "__gt__" -> "__le__" [] o = "__lt__" -> "__ge__"
          [] o = "__ge__" -> "__lt__" [] o = "__le__" -> "__gt__"
          [] o = "ULT" -> "UGE" [] o = "UGE" -> "ULT"
          [] o = "UGT" -> "ULE" [] o = "ULE" -> "UGT"
          [] o = "SLT" -> "SGE" [] o = "SGE" -> "SLT"
          [] o = "SLE" -> "SGT" [] o = "SGT" -> "SLE"]

\* the comparison with the inverse operator on the same operands
InverseOp(t) == [t EXCEPT !.op = _INVERSE_OPERATIONS[t.op]]

RECURSIVE SympyAtoms(_)
\* the terms claripy_ast_to_sympy_expr turns into sympy symbols
SympyAtoms(t) ==
    IF t.op \in {"And", "Or", "Not"}
    THEN UNION {SympyAtoms(t.args[i]) : i \in 1..Len(t.args)}
    ELSE IF t.op \in _UNIFIABLE_COMPARISONS THEN {InverseOp(t)}
    ELSE {t}

RECURSIVE SympyEval(_, _)
\* the truth value of claripy_ast_to_sympy_expr(t) when exactly the symbols
\* of S are true
SympyEval(t, S) ==
    CASE t.op = "And" -> \A i \in 1..Len(t.args) : SympyEval(t.args[i], S)
      [] t.op = "Or" -> \E i \in 1..Len(t.args) : SympyEval(t.args[i], S)
      [] t.op = "Not" -> ~SympyEval(t.args[1], S)
      [] t.op \in _UNIFIABLE_COMPARISONS -> InverseOp(t) \notin S
      [] OTHER -> t \in S

RECURSIVE SetToSeq(_)
\* the elements of a finite set in a fixed order
SetToSeq(S) ==
    IF S = {} THEN <<>>
    ELSE LET x == CHOOSE y \in S : TRUE IN <<x>> \o SetToSeq(S \ {x})

RECURSIVE Minterms(_, _, _, _)
\* the product terms of t over the symbols order[k..], those of chosen true
Minterms(t, order, k, chosen) ==
    IF k > Len(order)
    THEN IF SympyEval(t, chosen)
         THEN <<ClAnd([i \in 1..Len(order) |->
                        IF order[i] \in chosen THEN order[i] ELSE ClNot(order[i])])>>
         ELSE <<>>
    ELSE Minterms(t, order, k + 1, chosen \cup {order[k]})
         \o Minterms(t, order, k + 1, chosen)

\* sympy.simplify_logic followed by sympy_expr_to_claripy_ast: the oracle's
\* answer is taken to be the disjunction of the product terms over the
\* symbols the formula depends on, a constant when it depends on none
SimplifyLogic(t) ==
    LET atoms == SympyAtoms(t)
        needed == {a \in atoms : \E S \in SUBSET (atoms \ {a}) :
                      SympyEval(t, S) # SympyEval(t, S \cup {a})}
    IN IF needed = {} THEN BoolV(SympyEval(t, {}))
       ELSE ClOr(Minterms(t, SetToSeq(needed), 1, {}))

\* the gate with limits that are reached one level earlier
simplify_condition_Strict(cond) ==
    IF Depth(cond) >= depth_limit \/ Cardinality(Variables(cond)) >= variables_limit
    THEN cond
    ELSE SimplifyLogic(cond)

simplify_condition(cond) ==
    IF Depth(cond) > depth_limit \/ Cardinality(Variables(cond)) > variables_limit
    THEN cond
    ELSE SimplifyLogic(cond)

(***************************************************************************)
(* Redundant-term detection.                                               *)
(***************************************************************************)
RECURSIVE _extract_terms(_)
\* the terms under the And, Or and Not nodes of a condition
_extract_terms(ast) ==
    IF ast.op \in {"And", "Or", "Not"}
    THEN UNION {_extract_terms(ast.args[i]) : i \in 1..Len(ast.args)}
    ELSE {ast}

RECURSIVE _replace_term_in_ast(_, _, _, _, _)
\* r1 is None when the term has no negation among the terms
_replace_term_in_ast(ast, r0, r0_with, r1, r1_with) ==
    IF ast.op = "And"
    THEN ClAnd([i \in 1..Len(ast.args) |->
                   _replace_term_in_ast(ast.args[i], r0, r0_with, r1, r1_with)])
    ELSE IF ast.op = "Or"
    THEN ClOr([i \in 1..Len(ast.args) |->
                  _replace_term_in_ast(ast.args[i], r0, r0_with, r1, r1_with)])
    ELSE IF ast.op = "Not"
    THEN ClNot(_replace_term_in_ast(ast.args[1], r0, r0_with, r1, r1_with))
    ELSE IF ast = r0 THEN r0_with
    ELSE IF ast = r1 THEN r1_with
    ELSE ast

\* the sets all_terms_without_negs can be: of a term and its negation that
\* are both terms, the one the iteration over the set all_terms meets first
TermsWithoutNegs(cond) ==
    LET all_terms == _extract_terms(cond)
    IN {R \in SUBSET all_terms :
           \A t \in all_terms :
               IF ClNot(t) \in all_terms
               THEN (t \in R) # (ClNot(t) \in R)
               ELSE t \in R}

\* solver.satisfiable(extra_constraints=(a, Not(b))) or the same with a and
\* b exchanged
Distinguishable(a, b) == Satisfiable(ClAnd(<<a, ClNot(b)>>)) \/ Satisfiable(ClAnd(<<ClNot(a), b>>))

\* a report that looks at the replacement with true only
_remove_redundant_terms_OneSided(cond, all_terms_without_negs) ==
    [returned |-> None,
     printed |->
        {term \in all_terms_without_negs :
            LET neg == IF ClNot(term) \in _extract_terms(cond) THEN ClNot(term) ELSE None
            IN ~Distinguishable(cond, _replace_term_in_ast(cond, term, ClTrue, neg, ClFalse))}]

\* the value returned and the terms printed as redundant
_remove_redundant_terms(cond, all_terms_without_negs) ==
    [returned |-> None,
     printed |->
        {term \in all_terms_without_negs :
            LET neg == IF ClNot(term) \in _extract_terms(cond) THEN ClNot(term) ELSE None
            IN /\ ~Distinguishable(cond, _replace_term_in_ast(cond, term, ClTrue, neg, ClFalse))
               /\ ~Distinguishable(cond, _replace_term_in_ast(cond, term, ClFalse, neg, ClTrue))}]

(***************************************************************************)
(* The rewrite passes.                                                     *)
(***************************************************************************)
\* solver.add(a == b); not solver.satisfiable(): a and b never agree
NeverEqual(a, b) == \A v \in Valuations({a, b}) : Eval(a, v) # Eval(b, v)

_revert_short_circuit_conditions(cond) ==
    IF cond.op # "Or" THEN cond
    ELSE IF Len(cond.args) = 1 THEN cond.args[1]
    ELSE LET a0 == cond.args[1]
             a1 == cond.args[2]
             swap == a1.op # "And" /\ a0.op = "And"
             or_arg0 == IF swap THEN a1 ELSE a0
             or_arg1 == IF swap THEN a0 ELSE a1
         IN IF or_arg1.op # "And" THEN cond
            ELSE LET not_a == or_arg0
                     first == Variables(not_a) = Variables(or_arg1.args[1])
                     second == Variables(not_a) = Variables(or_arg1.args[2])
                     other == IF first THEN or_arg1.args[1] ELSE or_arg1.args[2]
                     not_b == IF first THEN or_arg1.args[2] ELSE or_arg1.args[1]
                 IN IF ~first /\ ~second THEN cond
                    ELSE IF NeverEqual(not_a, other)
                    THEN LET b == ClNot(not_b)
                             a == ClNot(not_a)
                         IN IF Len(cond.args) <= 2
                            THEN ClNot(ClAnd(<<a, b>>))
                            ELSE ClOr(<<ClNot(ClAnd(<<a, b>>))>>
                                      \o SubSeq(cond.args, 3, Len(cond.args)))
                    ELSE cond

_fold_double_negations(cond) ==
    IF cond.op # "Not" THEN None
    ELSE LET inner == cond.args[1] IN
         IF inner.op = "Not" THEN inner
         ELSE IF inner.op = "And" /\ Len(inner.args) = 2
                 /\ inner.args[1].op = "Not" /\ inner.args[2].op = "Not"
         THEN ClOr(<<inner.args[1].args[1], inner.args[2].args[1]>>)
         ELSE IF inner.op = "And" /\ Len(inner.args) = 2 /\ inner.args[1].op = "Not"
         THEN ClOr(<<inner.args[1].args[1], simplify_condition(ClNot(inner.args[2]))>>)
         ELSE IF inner.op = "Or" /\ Len(inner.args) = 2
         THEN ClAnd(<<simplify_condition(ClNot(inner.args[1])),
                      simplify_condition(ClNot(inner.args[2]))>>)
         ELSE None

\* raise AngrRuntimeError("Unexpected behavior - you should never reach here")
Unreachable == Term("AngrRuntimeError", <<>>, "", 0, 0)

RECURSIVE CountIn(_, _)
\* how often x occurs in s
CountIn(x, s) ==
    IF s = <<>> THEN 0
    ELSE (IF Head(s) = x THEN 1 ELSE 0) + CountIn(x, Tail(s))

RECURSIVE Terms(_)
\* the counted expressions of the arms, in the order the counter meets them
Terms(arms) ==
    IF arms = <<>> THEN <<>>
    ELSE (IF Head(arms).op = "And" THEN Head(arms).args ELSE <<Head(arms)>>)
         \o Terms(Tail(arms))

RECURSIVE WithoutAll(_, _)
\* s without the elements that occur in coll
WithoutAll(s, coll) ==
    IF s = <<>> THEN <<>>
    ELSE IF SeqMember(Head(s), coll) THEN WithoutAll(Tail(s), coll)
         ELSE <<Head(s)>> \o WithoutAll(Tail(s), coll)

RECURSIVE Factored(_, _)
\* new_args: every And arm without the common expressions; an arm that is a
\* common expression is skipped
Factored(arms, common) ==
    IF arms = <<>> THEN <<>>
    ELSE (IF Head(arms).op = "And"
          THEN <<ClAnd(WithoutAll(Head(arms).args, common))>>
          ELSE IF SeqMember(Head(arms), common) THEN <<>>
          ELSE <<Unreachable>>)
         \o Factored(Tail(arms), common)

RECURSIVE _extract_common_subexpressions(_)
_extract_common_subexpressions(cond) ==
    LET n == Len(cond.args)
        sub == [i \in 1..n |-> _extract_common_subexpressions(cond.args[i])]
        args == [i \in 1..n |-> IF sub[i] # None THEN sub[i] ELSE cond.args[i]]
    IN IF cond.op = "And"
       THEN IF \A i \in 1..n : sub[i] = None THEN None ELSE ClAnd(args)
       ELSE IF cond.op = "Or"
       THEN LET counted == Terms(args)
                keys == Dedup(counted)
                common_exprs == SelectSeq(keys, LAMBDA e : CountIn(e, counted) = n)
                new_args == Factored(args, common_exprs)
            IN IF common_exprs = <<>> THEN ClOr(args)
               ELSE IF SeqMember(Unreachable, new_args) THEN Unreachable
               ELSE ClAnd(common_exprs \o <<ClOr(new_args)>>)
       ELSE None

(***************************************************************************)
(* AIL expressions.                                                        *)
(***************************************************************************)
\* kind: the expression class; op: the operator of a BinaryOp / UnaryOp;
\* signed: BinaryOp.signed or Convert.is_signed; bits: the width (to_bits of
\* a Convert); idx: idx, tmp_idx or a constant's value; frm: Convert.from_bits;
\* ident: variable.ident ("" when variable is None)
Expr(kind, op, signed, operands, bits, idx, frm, ident) ==
    [kind |-> kind, op |-> op, signed |-> signed, operands |-> operands,
     bits |-> bits, idx |-> idx, frm |-> frm, ident |-> ident]

Register(idx, bits) == Expr("Register", "", FALSE, <<>>, bits, idx, 0, "")

Tmp(tmp_idx, bits) == Expr("Tmp", "", FALSE, <<>>, bits, tmp_idx, 0, "")

Const(value, bits) == Expr("Const", "", FALSE, <<>>, bits, value, 0, "")

\* Const(None, None, True, 1) and Const(None, None, False, 1)
ConstBool(b) == Expr("Const", "bool", FALSE, <<>>, 1, IF b THEN 1 ELSE 0, 0, "")

Convert(from_bits, to_bits, is_signed, operand) ==
    Expr("Convert", "", is_signed, <<operand>>, to_bits, 0, from_bits, "")

BinaryOp(op, operands, signed, bits) ==
    Expr("BinaryOp", op, signed, operands, bits, 0, 0, "")

UnaryOp(op, operand, bits) == Expr("UnaryOp", op, FALSE, <<operand>>, bits, 0, 0, "")

\* raise NotImplementedError(...) out of the conversion
RECURSIVE Hex(_)
\* format(n, "x")
Hex(n) ==
    LET digit(d) == <<"0", "1", "2", "3", "4", "5", "6", "7",
                      "8", "9", "a", "b", "c", "d", "e", "f">>[d + 1]
    IN IF n < 16 THEN digit(n) ELSE Hex(n \div 16) \o digit(n % 16)

\* no expression (Python's None)
NoExpr == Expr("None", "", FALSE, <<>>, 0, 0, 0, "")

NotImplementedError == Expr("NotImplementedError", "", FALSE, <<>>, 0, 0, 0, "")

\* repr(expression): taken to show the whole expression
Repr(e) == ToString(e)

\* hash(ast) and repr(ast) of a claripy term: taken to identify the term
Hash(t) == ToString(t)

\* BinaryOp.verbose_op
verbose_op(e) == IF e.signed THEN e.op \o " (signed)" ELSE e.op

(***************************************************************************)
(* AIL -> claripy.  A conversion returns [r: the term, m: the condition    *)
(* mapping after it]; the mapping is a function from symbol names to AIL   *)
(* expressions.                                                            *)
(***************************************************************************)
Record(m, name, e) == (name :> e) @@ m

\* a symbol named as claripy names one without explicit_name: with a suffix
\* that differs from call to call
_dummy_bvs_Minted(condition, m, name_suffix) ==
    LET name == "ailexpr_" \o Repr(condition) \o name_suffix
                \o "_" \o ToString(Cardinality(DOMAIN m))
    IN [r |-> BVS(name, condition.bits), m |-> Record(m, name, condition)]

_dummy_bvs(condition, m, name_suffix) ==
    LET name == "ailexpr_" \o Repr(condition) \o name_suffix
    IN [r |-> BVS(name, condition.bits), m |-> Record(m, name, condition)]

_dummy_bools(condition, m, name_suffix) ==
    LET name == "ailexpr_" \o Repr(condition) \o name_suffix
    IN [r |-> BoolS(name), m |-> Record(m, name, condition)]

\* a bit-vector operator node of the given width
BVOp(op, args, bits) == Term(op, args, "", 0, bits)

IsBV(t) == t.bits > 0

\* the claripy operator a row of _ail2claripy_op_mapping builds, "" for a
\* row that makes a dummy symbol
ClaripyOpOf(op) ==
    CASE op \in {"LogicalAnd"} -> "And"
      [] op \in {"LogicalOr"} -> "Or"
      [] op \in {"CmpEQ", "CasCmpEQ"} -> "__eq__"
      [] op \in {"CmpNE", "CasCmpNE"} -> "__ne__"
      [] op \in {"CmpLE", "CasCmpLE"} -> "ULE"
      [] op \in {"CmpLE (signed)", "CasCmpLE (signed)"} -> "SLE"
      [] op \in {"CmpLT", "CasCmpLT"} -> "ULT"
      [] op \in {"CmpLT (signed)", "CasCmpLT (signed)"} -> "SLT"
      [] op \in {"CmpGE", "CasCmpGE"} -> "UGE"
      [] op \in {"CmpGE (signed)", "CasCmpGE (signed)"} -> "SGE"
      [] op \in {"CmpGT", "CasCmpGT"} -> "UGT"
      [] op \in {"CmpGT (signed)", "CasCmpGT (signed)"} -> "SGT"
      [] op = "Add" -> "__add__"
      [] op = "Sub" -> "__sub__"
      [] op = "Mul" -> "__mul__"
      [] op = "Div" -> "__floordiv__"
      [] op = "Mod" -> "__mod__"
      [] op = "Not" -> "Not"
      [] op = "Neg" -> "__neg__"
      [] op = "BitwiseNeg" -> "__invert__"
      [] op = "Xor" -> "__xor__"
      [] op = "And" -> "__and__"
      [] op = "Or" -> "__or__"
      [] op = "Shr" -> "LShR"
      [] op = "Shl" -> "__lshift__"
      [] op = "Sar" -> "__rshift__"
      [] op = "Concat" -> "Concat"
      [] OTHER -> ""

\* the keys of _ail2claripy_op_mapping
MappedOps ==
    {"LogicalAnd", "LogicalOr", "CmpEQ", "CmpNE", "CmpLE", "CmpLE (signed)", "CmpLT",
     "CmpLT (signed)", "CmpGE", "CmpGE (signed)", "CmpGT", "CmpGT (signed)",
     "CasCmpEQ", "CasCmpNE", "CasCmpLE", "CasCmpLE (signed)", "CasCmpLT",
     "CasCmpLT (signed)", "CasCmpGE", "CasCmpGE (signed)", "CasCmpGT",
     "CasCmpGT (signed)", "Add", "Sub", "Mul", "Div", "Mod", "Not", "Neg",
     "BitwiseNeg", "Xor", "And", "Or", "Shr", "Shl", "Sar", "Concat",
     "CmpF", "Mull", "Mull (signed)", "Reinterpret", "Rol", "Ror", "LogicalXor",
     "Carry", "SCarry", "SBorrow", "ExpCmpNE", "CmpORD", "CmpEQV", "GetMSBs",
     "ShlNV", "ShrNV", "InterleaveLOV", "InterleaveHIV", "_DUMMY_"}

\* the row the lookup of lines 904-916 ends at
RowOf(e) ==
    IF verbose_op(e) \in MappedOps THEN verbose_op(e)
    ELSE IF e.op \in MappedOps THEN e.op
    ELSE "_DUMMY_"

ComparisonOps ==
    {"__eq__", "__ne__", "ULE", "ULT", "UGE", "UGT", "SLE", "SLT", "SGE", "SGT",
     "__le__", "__lt__", "__ge__", "__gt__"}

\* the term an operator row builds from its converted operands
Apply(cop, args) ==
    CASE cop = "And" -> ClAnd(args)
      [] cop = "Or" -> ClOr(args)
      [] cop = "Not" -> ClNot(args[1])
      [] cop \in ComparisonOps -> Mk(cop, args)
      [] cop = "Concat" -> BVOp(cop, args, args[1].bits + args[2].bits)
      [] OTHER -> BVOp(cop, args, args[1].bits)

RECURSIVE claripy_ast_from_ail_condition(_, _, _, _, _)
RECURSIVE ConvOperands(_, _, _, _, _)

\* the operands converted left to right, each with its own nobool flag
ConvOperands(ops, nobools, ins_addr, m, k) ==
    IF k > Len(ops) THEN [rs |-> <<>>, m |-> m]
    ELSE LET Join(r, rest) == [rs |-> <<r>> \o rest.rs, m |-> rest.m]
             Rest(one) == Join(one.r, ConvOperands(ops, nobools, ins_addr, one.m, k + 1))
         IN Rest(claripy_ast_from_ail_condition(ops[k], nobools[k], FALSE, ins_addr, m))

\* _op_with_unified_size
_op_with_unified_size(cop, operand0, operand1, ins_addr, m) ==
    LET WithConst(a) == [r |-> Apply(cop, <<a.r, BVV(operand1.idx, a.r.bits)>>), m |-> a.m]
        Applied(c) == [r |-> Apply(cop, c.rs), m |-> c.m]
        ext == Convert(operand1.bits, operand0.bits, FALSE, operand1)
    IN IF operand1.kind = "Const"
       THEN WithConst(claripy_ast_from_ail_condition(operand0, TRUE, FALSE, ins_addr, m))
       ELSE Applied(ConvOperands(<<operand0, IF operand1.bits = operand0.bits
                                             THEN operand1 ELSE ext>>,
                                 <<TRUE, operand1.bits # operand0.bits>>, ins_addr, m, 1))

\* the lambda of the row: the term and the mapping after it
Row(row, e, ins_addr, m) ==
    CASE ClaripyOpOf(row) = "" ->
            IF row = "ExpCmpNE" THEN _dummy_bools(e, m, "") ELSE _dummy_bvs(e, m, "")
      [] row \in {"Shr", "Shl", "Sar"} ->
            _op_with_unified_size(ClaripyOpOf(row), e.operands[1], e.operands[2], ins_addr, m)
      [] OTHER ->
            LET plain == row \in {"LogicalAnd", "LogicalOr", "Not", "Neg", "BitwiseNeg", "Concat"}
                Applied(c) == [r |-> Apply(ClaripyOpOf(row), c.rs), m |-> c.m]
            IN Applied(ConvOperands(e.operands, [i \in 1..Len(e.operands) |-> ~plain],
                                    ins_addr, m, 1))

claripy_ast_from_ail_condition(condition, nobool, must_bool, ins_addr, m) ==
    CASE condition.kind \in {"VEXCCallExpression", "BasePointerOffset", "ITE"} ->
            _dummy_bvs(condition, m, "")
      [] condition.kind = "Call" ->
            _dummy_bvs(condition, m, "0x" \o Hex(condition.idx))
      [] condition.kind \in {"Load", "Register", "VirtualVariable"} ->
            LET name == "ailexpr_" \o Repr(condition) \o "-"
                        \o (IF condition.ident # "" THEN condition.ident
                            ELSE ToString(condition.idx))
                        \o "-" \o Hex(ins_addr)
            IN [r |-> BVS(name, condition.bits), m |-> Record(m, name, condition)]
      [] condition.kind = "Convert" ->
            LET asbool == condition.bits = 1 /\ ~nobool
                Named(name, m0) ==
                    [r |-> IF asbool THEN BoolS(name) ELSE BVS(name, condition.bits),
                     m |-> Record(m0, name, condition)]
                Conv(var_) ==
                    Named((IF asbool THEN "ailcond_Conv(" ELSE "ailexpr_Conv(")
                          \o ToString(condition.frm) \o "->" \o ToString(condition.bits)
                          \o ", " \o Hash(var_.r) \o ")", var_.m)
            IN Conv(claripy_ast_from_ail_condition(condition.operands[1], FALSE, FALSE,
                                                   ins_addr, m))
      [] condition.kind = "Const" ->
            [r |-> IF condition.op = "bool" THEN BoolV(condition.idx = 1)
                   ELSE IF condition.bits = 1 THEN BoolV(condition.idx = 1)
                   ELSE BVV(condition.idx, condition.bits),
             m |-> m]
      [] condition.kind = "Tmp" ->
            LET name == "ailtmp_" \o ToString(condition.idx)
            IN [r |-> IF condition.bits = 1 THEN BoolS(name) ELSE BVS(name, condition.bits),
                m |-> Record(m, name, condition)]
      [] condition.kind = "MultiStatementExpression" ->
            LET name == "mstmtexpr_" \o Repr(condition)
            IN [r |-> IF condition.bits = 1 THEN BoolS(name) ELSE BVS(name, condition.bits),
                m |-> Record(m, name, condition)]
      [] OTHER ->
            LET ToBool(r1, m1, name2) ==
                    IF ~(IsBV(r1) /\ r1.bits = 1 /\ must_bool) THEN [r |-> r1, m |-> m1]
                    ELSE IF r1.op = "BVV" THEN [r |-> BoolV(r1.val # 0), m |-> m1]
                    ELSE [r |-> BoolS(name2), m |-> Record(m1, name2, condition)]
                MustBool(r1, m1) ==
                    ToBool(r1, m1, "bool_from_bv1_" \o (IF r1.op = "BVS" THEN r1.name
                                                        ELSE Hash(r1.args[1])))
                FromBool(row, frombool, name1) ==
                    MustBool(IF frombool THEN BVS(name1, 1) ELSE row.r,
                             IF frombool THEN Record(row.m, name1, condition) ELSE row.m)
                NoBool(row) ==
                    FromBool(row, ~IsBV(row.r) /\ nobool, "ailexpr_from_bool_" \o Hash(row.r))
            IN NoBool(Row(RowOf(condition), condition, ins_addr, m))

(***************************************************************************)
(* claripy -> AIL.                                                         *)
(***************************************************************************)
\* the unary rows of _mapping: the AIL operator a claripy operator becomes
UnaryRows ==
    [o \in {"Not", "__neg__", "__invert__"} |->
        CASE o = "Not" -> "Not"
          [] o = "__neg__" -> "Not"
          [] o = "__invert__" -> "BitwiseNeg"]

BinaryRowOps ==
    {"And", "Or", "__le__", "SLE", "__lt__", "SLT", "UGT", "UGE", "__gt__", "__ge__",
     "SGT", "SGE", "ULT", "ULE", "__eq__", "__ne__", "__add__", "__sub__", "__mul__",
     "__xor__", "__or__", "__and__", "__lshift__", "__rshift__", "__floordiv__",
     "__mod__", "LShR", "Concat"}

\* the binary rows of _mapping: the AIL operator and the signed flag
BinaryRows ==
    [o \in BinaryRowOps |->
        CASE o = "And" -> <<"LogicalAnd", FALSE>>
          [] o = "Or" -> <<"LogicalOr", FALSE>>
          [] o = "__le__" -> <<"CmpLE", TRUE>>
          [] o = "SLE" -> <<"CmpLE", TRUE>>
          [] o = "__lt__" -> <<"CmpLT", TRUE>>
          [] o = "SLT" -> <<"CmpLT", TRUE>>
          [] o = "UGT" -> <<"CmpGT", FALSE>>
          [] o = "UGE" -> <<"CmpGE", FALSE>>
          [] o = "__gt__" -> <<"CmpGT", TRUE>>
          [] o = "__ge__" -> <<"CmpGE", TRUE>>
          [] o = "SGT" -> <<"CmpGT", TRUE>>
          [] o = "SGE" -> <<"CmpGE", TRUE>>
          [] o = "ULT" -> <<"CmpLT", FALSE>>
          [] o = "ULE" -> <<"CmpLE", FALSE>>
          [] o = "__eq__" -> <<"CmpEQ", FALSE>>
          [] o = "__ne__" -> <<"CmpNE", FALSE>>
          [] o = "__add__" -> <<"Add", FALSE>>
          [] o = "__sub__" -> <<"Sub", FALSE>>
          [] o = "__mul__" -> <<"Mul", FALSE>>
          [] o = "__xor__" -> <<"Xor", FALSE>>
          [] o = "__or__" -> <<"Or", FALSE>>
          [] o = "__and__" -> <<"And", FALSE>>
          [] o = "__lshift__" -> <<"Shl", FALSE>>
          [] o = "__rshift__" -> <<"Sar", FALSE>>
          [] o = "__floordiv__" -> <<"Div", FALSE>>
          [] o = "__mod__" -> <<"Mod", FALSE>>
          [] o = "LShR" -> <<"Shr", FALSE>>
          [] o = "Concat" -> <<"Concat", FALSE>>]

\* the width ailment gives a BinaryOp
BinaryBits(op, a, b) ==
    IF op \in {"LogicalAnd", "LogicalOr", "CmpEQ", "CmpNE", "CmpLE", "CmpLT", "CmpGE", "CmpGT"}
    THEN 1
    ELSE IF op = "Concat" THEN a.bits + b.bits
    ELSE a.bits

\* peephole_optimize_expr with RemoveRedundantNots: a Not of a Not is its operand
peephole_optimize_expr(e) ==
    IF e.kind = "UnaryOp" /\ e.op = "Not" /\ e.operands[1].kind = "UnaryOp"
       /\ e.operands[1].op = "Not"
    THEN e.operands[1].operands[1]
    ELSE e

RECURSIVE convert_claripy_bool_ast(_, _)
RECURSIVE _binary_op_reduce(_, _, _, _, _)

\* the left fold of the converted arguments args[k..] onto r
_binary_op_reduce(row, args, k, r, m) ==
    IF k > Len(args) THEN r
    ELSE LET x == convert_claripy_bool_ast(args[k], m)
         IN IF x = NotImplementedError \/ r = NotImplementedError THEN NotImplementedError
            ELSE _binary_op_reduce(row, args, k + 1,
                     BinaryOp(row[1], <<r, x>>, row[2], BinaryBits(row[1], r, x)), m)

\* a variant that answers an operator without a row with a placeholder
convert_claripy_bool_ast_core_Placeholder(cond, m) ==
    IF cond.op \in {"BVS", "BoolS"} /\ cond.name \in DOMAIN m THEN m[cond.name]
    ELSE ConstBool(TRUE)

\* NotImplementedError stands for the exception raised at line 833; the
\* terms here have no Extract and no ZeroExt node
convert_claripy_bool_ast_core(cond, m) ==
    IF cond.op \in {"BoolS", "BoolV"} /\ IsTrue(cond) THEN ConstBool(TRUE)
    ELSE IF cond.op \in {"BVS", "BoolS"} /\ cond.name \in DOMAIN m THEN m[cond.name]
    ELSE IF cond.op \in DOMAIN UnaryRows
    THEN LET x == convert_claripy_bool_ast(cond.args[1], m)
         IN IF x = NotImplementedError THEN x
            ELSE UnaryOp(UnaryRows[cond.op], x, x.bits)
    ELSE IF cond.op \in BinaryRowOps
    THEN _binary_op_reduce(BinaryRows[cond.op], cond.args, 2,
                           convert_claripy_bool_ast(cond.args[1], m), m)
    ELSE IF cond.op = "BVV" THEN Const(cond.val, cond.bits)
    ELSE IF cond.op = "BoolV" THEN ConstBool(cond.val = 1)
    ELSE NotImplementedError

\* isinstance(cond, claripy.ast.Base)
IsClaripy(cond) == "args" \in DOMAIN cond

\* the result does not depend on the memo: a condition found in the memo is
\* answered with what this very conversion stored for it
convert_claripy_bool_ast(cond, m) ==
    IF ~IsClaripy(cond) THEN cond
    ELSE LET r == convert_claripy_bool_ast_core(cond, m)
         IN IF r = NotImplementedError THEN r ELSE peephole_optimize_expr(r)

\* the terms convert_claripy_bool_ast_core hands back to
\* convert_claripy_bool_ast
CoreArgs(cond, m) ==
    IF cond.op \in {"BoolS", "BoolV"} /\ IsTrue(cond) THEN <<>>
    ELSE IF cond.op \in {"BVS", "BoolS"} /\ cond.name \in DOMAIN m THEN <<>>
    ELSE IF cond.op \in DOMAIN UnaryRows THEN <<cond.args[1]>>
    ELSE IF cond.op \in BinaryRowOps THEN cond.args
    ELSE <<>>

RECURSIVE Memoized_Unshared(_, _, _, _)
\* every conversion with a memo of its own
Memoized_Unshared(conds, k, m, st) ==
    IF k > Len(conds) THEN st
    ELSE IF ~IsClaripy(conds[k])
    THEN Memoized_Unshared(conds, k + 1, m, st)
    ELSE LET inner == Memoized_Unshared(CoreArgs(conds[k], m), 1, m,
                                        [st EXCEPT !.core = Append(@, conds[k])])
         IN Memoized_Unshared(conds, k + 1, m, inner)

RECURSIVE Memoized(_, _, _, _)
\* what convert_claripy_bool_ast(conds[k], memo), ..., in order, do to the
\* memo (st.memo: _hash -> expression) and the terms they hand to
\* convert_claripy_bool_ast_core, in order (st.core)
Memoized(conds, k, m, st) ==
    IF k > Len(conds) THEN st
    ELSE IF ~IsClaripy(conds[k]) \/ Hash(conds[k]) \in DOMAIN st.memo
    THEN Memoized(conds, k + 1, m, st)
    ELSE LET inner == Memoized(CoreArgs(conds[k], m), 1, m,
                               [st EXCEPT !.core = Append(@, conds[k])])
             Stored(r) == [inner EXCEPT !.memo = (Hash(conds[k]) :> r) @@ @]
         IN Memoized(conds, k + 1, m, Stored(convert_claripy_bool_ast(conds[k], m)))

\* a structured node: nodes holds the children (the inner node of a
\* CodeNode, the true and false nodes of a ConditionNode)
SNode(type, nodes, reaching_condition, condition) ==
    [type |-> type, nodes |-> nodes, reaching_condition |-> reaching_condition,
     condition |-> condition, conditions |-> <<>>]

SequenceNode(nodes) == SNode("SequenceNode", nodes, None, None)

CodeNode(node, reaching_condition) == SNode("CodeNode", <<node>>, reaching_condition, None)

ConditionalBreakNode(condition) == SNode("ConditionalBreakNode", <<>>, None, condition)

ConditionNode(reaching_condition, condition, true_node, false_node) ==
    SNode("ConditionNode", <<true_node, false_node>>, reaching_condition, condition)

MultiNode(nodes) == SNode("MultiNode", nodes, None, None)

\* condition_and_nodes: conditions[i] goes with nodes[i]; the else node,
\* None when there is none, is the last of nodes
CascadingConditionNode(conditions, nodes, else_node) ==
    [SNode("CascadingConditionNode", Append(nodes, else_node), None, None)
        EXCEPT !.conditions = conditions]

LoopNode(condition, sequence_node) == SNode("LoopNode", <<sequence_node>>, None, condition)

\* the cases and then the default node, None when there is none
SwitchCaseNode(switch_expr, cases, default_node) ==
    SNode("SwitchCaseNode", Append(cases, default_node), None, switch_expr)

\* the head and then the cases
IncompleteSwitchCaseNode(head, cases) ==
    SNode("IncompleteSwitchCaseNode", <<head>> \o cases, None, None)

\* a node remove_claripy_bool_asts returns as it is
PlainBlock == SNode("Block", <<>>, None, None)

RECURSIVE remove_claripy_bool_asts(_, _)
\* an exception raised by a conversion inside leaves every enclosing call
remove_claripy_bool_asts(node, m) ==
    LET Raised(xs) == \E i \in 1..Len(xs) : xs[i] = NotImplementedError
        Children(rs) ==
            IF Raised(rs) THEN NotImplementedError ELSE [node EXCEPT !.nodes = rs]
        WithConditions(rs, rc, c, cs) ==
            IF rs = NotImplementedError \/ Raised(<<rc, c>> \o cs)
            THEN NotImplementedError
            ELSE [rs EXCEPT !.reaching_condition = rc, !.condition = c, !.conditions = cs]
        OrNone(c) == IF c = None THEN None ELSE convert_claripy_bool_ast(c, m)
        Removed(nodes) ==
            Children([i \in 1..Len(nodes) |-> remove_claripy_bool_asts(nodes[i], m)])
    IN IF node = None THEN node
       ELSE CASE node.type \in {"SequenceNode", "MultiNode", "IncompleteSwitchCaseNode"} ->
                     Removed(node.nodes)
              [] node.type = "CodeNode" ->
                     WithConditions(Removed(node.nodes), OrNone(node.reaching_condition),
                                    None, <<>>)
              [] node.type = "ConditionalBreakNode" ->
                     WithConditions(node, None, convert_claripy_bool_ast(node.condition, m),
                                    <<>>)
              [] node.type = "ConditionNode" ->
                     WithConditions(Removed(node.nodes), OrNone(node.reaching_condition),
                                    convert_claripy_bool_ast(node.condition, m), <<>>)
              [] node.type = "CascadingConditionNode" ->
                     WithConditions(Removed(node.nodes), None, None,
                                    [i \in 1..Len(node.conditions) |->
                                        convert_claripy_bool_ast(node.conditions[i], m)])
              [] node.type = "LoopNode" ->
                     WithConditions(Removed(node.nodes), None, OrNone(node.condition), <<>>)
              [] node.type = "SwitchCaseNode" ->
                     WithConditions(Removed(node.nodes), None,
                                    convert_claripy_bool_ast(node.condition, m), <<>>)
              [] OTHER -> node

RECURSIVE Conversions(_)
\* the conditions remove_claripy_bool_asts(node) hands to
\* convert_claripy_bool_ast, in the order of the calls
Conversions(node) ==
    LET Of(n) == Conversions(n)
        RECURSIVE Each(_, _)
        Each(nodes, k) == IF k > Len(nodes) THEN <<>> ELSE Of(nodes[k]) \o Each(nodes, k + 1)
        RECURSIVE Pairs(_)
        Pairs(k) ==
            IF k > Len(node.conditions) THEN <<>>
            ELSE <<node.conditions[k]>> \o Of(node.nodes[k]) \o Pairs(k + 1)
        Given(c) == IF c = None THEN <<>> ELSE <<c>>
    IN IF node = None THEN <<>>
       ELSE CASE node.type \in {"SequenceNode", "MultiNode", "IncompleteSwitchCaseNode"} ->
                     Each(node.nodes, 1)
              [] node.type = "CodeNode" ->
                     Each(node.nodes, 1) \o Given(node.reaching_condition)
              [] node.type = "ConditionalBreakNode" -> <<node.condition>>
              [] node.type = "ConditionNode" ->
                     Given(node.reaching_condition) \o <<node.condition>> \o Each(node.nodes, 1)
              [] node.type = "CascadingConditionNode" ->
                     Pairs(1) \o Of(node.nodes[Len(node.nodes)])
              [] node.type = "LoopNode" -> Given(node.condition) \o Each(node.nodes, 1)
              [] node.type = "SwitchCaseNode" -> <<node.condition>> \o Each(node.nodes, 1)
              [] OTHER -> <<>>

\* the memo "remove_claripy_bool_asts(node)" ends with and the terms its
\* conversions handed to the core, when no conversion raised
MemoOf(node, m) == Memoized(Conversions(node), 1, m, [memo |-> <<>>, core |-> <<>>])

(***************************************************************************)
(* Regions: graphs of nodes, the blocks at the nodes.                      *)
(***************************************************************************)
\* arch.bits of the processor's architecture
ArchBits == 64

\* the class attribute EXC_COUNTER
EXC_COUNTER == 1000

\* the index base of the register of an exception edge's predicate
ExcRegBase == 4194304

\* node.addr
Addr(n) == 16 * n

\* a networkx.DiGraph: nodes, edges <<src, dst>>, the edges of type "exception"
Graph(nodes, edges, exc) == [nodes |-> nodes, edges |-> edges, exc |-> exc]

\* no graph (Python's None)
NoGraph == Graph({}, {}, {})

Successors(g, n) == {e[2] : e \in {x \in g.edges : x[1] = n}}

Predecessors(g, n) == {e[1] : e \in {x \in g.edges : x[2] = n}}

RECURSIVE Sorted(_)
\* a set of nodes in the order the graph yields them
Sorted(S) ==
    IF S = {} THEN <<>>
    ELSE LET x == CHOOSE y \in S : \A z \in S : y <= z
         IN <<x>> \o Sorted(S \ {x})

RECURSIVE Reaches(_, _, _)
\* networkx.has_path(g, a, b)
Reaches(g, a, b) == a = b \/ \E s \in Successors(g, a) : Reaches(g, s, b)

\* a statement of a block
Stmt(kind, condition, target, ins_addr) ==
    [kind |-> kind, condition |-> condition, target |-> target, ins_addr |-> ins_addr]

\* get_last_statement returning None
NoStmt == Stmt("None", NoExpr, NoExpr, 0)

\* get_last_statement raising NotImplementedError
NotImplementedStmt == Stmt("NotImplementedError", NoExpr, NoExpr, 0)

\* get_last_statement raising EmptyBlockNotice
EmptyBlockNotice == Stmt("EmptyBlockNotice", NoExpr, NoExpr, 0)

\* a node of a graph: an ailment.Block with its statements, a
\* ConditionalBreakNode with its (claripy) condition and target, a GraphRegion
NodeOf(type, statements, condition, target) ==
    [type |-> type, statements |-> statements, condition |-> condition, target |-> target]

\* a node that holds other nodes: a SequenceNode or a MultiNode
NodesOf(type, nodes) ==
    [type |-> type, statements |-> <<>>, condition |-> None, target |-> 0, nodes |-> nodes]

RECURSIVE get_last_statement(_)
get_last_statement(block) ==
    CASE block.type = "SequenceNode" ->
             IF block.nodes # <<>> THEN get_last_statement(block.nodes[Len(block.nodes)])
             ELSE EmptyBlockNotice
      [] block.type = "Block" ->
             IF block.statements = <<>> THEN EmptyBlockNotice
             ELSE block.statements[Len(block.statements)]
      [] block.type = "MultiNode" ->
             LET Latest(found) ==
                     IF found = {} THEN EmptyBlockNotice
                     ELSE get_last_statement(
                              block.nodes[CHOOSE i \in found : \A j \in found : j <= i])
             IN Latest({i \in 1..Len(block.nodes) :
                           get_last_statement(block.nodes[i]) # EmptyBlockNotice})
      [] block.type = "BlockNode" -> NotImplementedStmt
      [] block.type = "ConditionalBreakNode" -> NoStmt
      [] block.type = "GraphRegion" -> NoStmt

(***************************************************************************)
(* Edge predicates.  The condition mapping m and the exception counter exc *)
(* are threaded through: every result carries their new values.            *)
(***************************************************************************)
Pred(r, m, exc) == [r |-> r, m |-> m, exc |-> exc]

\* the term standing for a raised EmptyBlockNotice
EmptyBlockRaised == Term("EmptyBlockNotice", <<>>, "", 0, 0)

\* the term standing for a raised NotImplementedError
NotImplementedRaised == Term("NotImplementedError", <<>>, "", 0, 0)

\* a variant that leaves the counter as it is
IncrementExcCounter_Same(exc) == exc

\* "self.EXC_COUNTER += 1"
IncrementExcCounter(exc) == exc + 1

_extract_predicate(src_block, dst, edge_type, m, exc) ==
    IF edge_type = "exception"
    THEN LET c == IncrementExcCounter(exc)
             Counted(res) == Pred(res.r, res.m, c)
         IN Counted(claripy_ast_from_ail_condition(
                        BinaryOp("CmpEQ", <<Register(ExcRegBase + c, 64), Const(c, 64)>>,
                                 FALSE, 1),
                        FALSE, FALSE, Addr(dst), m))
    ELSE IF src_block.type = "ConditionalBreakNode"
    THEN Pred(IF src_block.target = Addr(dst) THEN src_block.condition
              ELSE ClNot(src_block.condition), m, exc)
    ELSE IF src_block.type = "GraphRegion" THEN Pred(ClTrue, m, exc)
    ELSE LET Last(last_stmt) ==
                CASE last_stmt = EmptyBlockNotice -> Pred(EmptyBlockRaised, m, exc)
              [] last_stmt = NotImplementedStmt -> Pred(NotImplementedRaised, m, exc)
              [] last_stmt = NoStmt -> Pred(ClTrue, m, exc)
              [] last_stmt.kind = "Jump" ->
                     IF last_stmt.target.kind = "Const" THEN Pred(ClTrue, m, exc)
                     ELSE LET Target(res) ==
                                  Pred(ClEq(res.r, BVV(Addr(dst), res.r.bits)), res.m, exc)
                          IN Target(claripy_ast_from_ail_condition(
                                        last_stmt.target, FALSE, FALSE,
                                        last_stmt.ins_addr, m))
              [] last_stmt.kind = "ConditionalJump" ->
                     LET Branch(res) ==
                             IF /\ last_stmt.target.kind = "Const"
                                /\ last_stmt.target.idx = Addr(dst)
                             THEN Pred(res.r, res.m, exc)
                             ELSE Pred(ClNot(res.r), res.m, exc)
                     IN Branch(claripy_ast_from_ail_condition(
                                   last_stmt.condition, FALSE, TRUE,
                                   last_stmt.ins_addr, m))
              [] OTHER -> Pred(ClTrue, m, exc)
         IN Last(get_last_statement(src_block))

\* the "type" of the edge's data, "transition" when it has none
EdgeType(g, edge) == IF edge \in g.exc THEN "exception" ELSE "transition"

\* a variant that lets the notice through
recover_edge_condition_Uncaught(g, blocks, src, dst, m, exc) ==
    _extract_predicate(blocks[src], dst, EdgeType(g, <<src, dst>>), m, exc)

recover_edge_condition(g, blocks, src, dst, m, exc) ==
    LET Caught(p) == IF p.r = EmptyBlockRaised THEN Pred(ClTrue, p.m, p.exc) ELSE p
    IN Caught(_extract_predicate(blocks[src], dst, EdgeType(g, <<src, dst>>), m, exc))

RECURSIVE EdgeOrder(_)
\* the edges in the order "for src in graph.nodes(): for dst in graph[src]"
EdgeOrder(E) ==
    IF E = {} THEN <<>>
    ELSE LET e == CHOOSE x \in E :
                      \A y \in E : x[1] < y[1] \/ (x[1] = y[1] /\ x[2] <= y[2])
         IN <<e>> \o EdgeOrder(E \ {e})

RECURSIVE RecoverEdges(_, _, _, _, _)
\* an exception other than the notice ends the loop: raised tells it, m
\* and exc are what the processor holds by then
RecoverEdges(es, k, g, blocks, acc) ==
    IF k > Len(es) THEN acc
    ELSE LET With(p) ==
                 IF p.r = NotImplementedRaised
                 THEN [ec |-> acc.ec, m |-> p.m, exc |-> p.exc, raised |-> TRUE]
                 ELSE RecoverEdges(es, k + 1, g, blocks,
                                   [ec |-> acc.ec @@ (es[k] :> p.r), m |-> p.m,
                                    exc |-> p.exc, raised |-> FALSE])
         IN With(recover_edge_condition(g, blocks, es[k][1], es[k][2], acc.m, acc.exc))

\* recover_edge_conditions(region, graph): g is "graph or region.graph"
recover_edge_conditions(g, blocks, m, exc) ==
    RecoverEdges(EdgeOrder(g.edges), 1, g, blocks,
                 [ec |-> <<>>, m |-> m, exc |-> exc, raised |-> FALSE])

\* have_opposite_edge_conditions(graph, src, dst0, dst1): r is what it
\* returns, unless raised tells that the EmptyBlockNotice of
\* get_last_statement left the fast path; the fallback
\* is_true(Not(left) == right) holds for the very same term
have_opposite_edge_conditions(g, blocks, src, dst0, dst1, m, exc) ==
    LET Fallback(left) ==
            LET Right(right) ==
                    [raised |-> FALSE, r |-> ClNot(left.r) = right.r,
                     m |-> right.m, exc |-> right.exc]
            IN Right(recover_edge_condition(g, blocks, src, dst1, left.m, left.exc))
        Fast(last_stmt) ==
            IF last_stmt = EmptyBlockNotice
            THEN [raised |-> TRUE, r |-> FALSE, m |-> m, exc |-> exc]
            ELSE IF last_stmt.kind = "ConditionalJump"
            THEN [raised |-> FALSE, r |-> TRUE, m |-> m, exc |-> exc]
            ELSE Fallback(recover_edge_condition(g, blocks, src, dst0, m, exc))
    IN IF /\ src \in g.nodes /\ Cardinality(Successors(g, src)) = 2
          /\ <<src, dst0>> \in g.edges /\ <<src, dst1>> \in g.edges
       THEN Fast(get_last_statement(blocks[src]))
       ELSE Fallback(recover_edge_condition(g, blocks, src, dst0, m, exc))

(***************************************************************************)
(* Graph processing.                                                       *)
(***************************************************************************)
RECURSIVE VisitSuccessors(_, _, _, _, _, _)
\* the loop over the successors of src: st is [queue, traversed, remove]
VisitSuccessors(g, starting_nodes, src, succs, k, st) ==
    IF k > Len(succs) THEN st
    ELSE LET succ == succs[k]
         IN VisitSuccessors(g, starting_nodes, src, succs, k + 1,
                IF succ \in st.traversed
                THEN IF Successors(g, succ) # {}
                     THEN [st EXCEPT !.remove = @ \cup {<<src, succ>>}]
                     ELSE st
                ELSE IF succ \in starting_nodes
                THEN [st EXCEPT !.remove = @ \cup {<<src, succ>>}]
                ELSE [st EXCEPT !.queue = Append(@, succ)])

RECURSIVE Traverse(_, _, _)
\* the loop "while queue"
Traverse(g, starting_nodes, st) ==
    IF st.queue = <<>> THEN st
    ELSE LET src == Head(st.queue)
         IN Traverse(g, starting_nodes,
                VisitSuccessors(g, starting_nodes, src, Sorted(Successors(g, src)), 1,
                    [st EXCEPT !.queue = Tail(@), !.traversed = @ \cup {src}]))

RECURSIVE TraverseFrom(_, _, _, _, _)
\* the loop over the starting nodes
TraverseFrom(g, starting_nodes, order, k, st) ==
    IF k > Len(order) THEN st
    ELSE TraverseFrom(g, starting_nodes, order, k + 1,
             Traverse(g, starting_nodes, [st EXCEPT !.queue = <<order[k]>>]))

\* the set edges_to_remove at the end of the loop over the starting nodes
edges_to_remove(g, starting_nodes) ==
    TraverseFrom(g, starting_nodes, Sorted(starting_nodes), 1,
                 [queue |-> <<>>, traversed |-> {}, remove |-> {}]).remove

\* the returned graph object before it is handed back
Filtered == "filtered"

\* a variant that removes the edges from the graph object it was given
_remove_crossing_edges_between_cases_InPlace(graphs, graph, case_entry_to_switch_head) ==
    LET starting_nodes ==
            {n \in graphs[graph].nodes : Addr(n) \in DOMAIN case_entry_to_switch_head}
        Remove(g, remove) ==
            [graphs |-> [graphs EXCEPT ![graph] = Graph(g.nodes, g.edges \ remove, g.exc \ remove)],
             graph |-> graph]
    IN Remove(graphs[graph], edges_to_remove(graphs[graph], starting_nodes))

\* graphs: the graph objects by identity; graph: the identity of the
\* argument.  The result is the identity of the returned object and the
\* graph objects after the call; networkx.DiGraph(graph) is a new object.
_remove_crossing_edges_between_cases(graphs, graph, case_entry_to_switch_head) ==
    LET starting_nodes ==
            {n \in graphs[graph].nodes : Addr(n) \in DOMAIN case_entry_to_switch_head}
        Remove(g, remove) ==
            IF starting_nodes = {} \/ remove = {}
            THEN [graphs |-> graphs, graph |-> graph]
            ELSE [graphs |-> (Filtered :> Graph(g.nodes, g.edges \ remove, g.exc \ remove))
                                 @@ graphs,
                  graph |-> Filtered]
    IN Remove(graphs[graph], edges_to_remove(graphs[graph], starting_nodes))

RECURSIVE PostDominates(_, _, _)
\* dominates(idoms, a, b) on the immediate dominators of the inverted graph:
\* every way from b to an end of the graph goes through a
PostDominates(g, a, b) ==
    \/ a = b
    \/ /\ Successors(g, b) # {}
       /\ \A s \in Successors(g, b) : PostDominates(g, a, s)

\* GraphUtils.quasi_topological_sort_nodes on an acyclic graph
quasi_topological_sort_nodes(g) == Sorted(g.nodes)

create_jump_target_var(jumptable_head_addr) ==
    BVS("jump_table_" \o Hex(jumptable_head_addr), ArchBits)

(***************************************************************************)
(* recover_reaching_conditions.                                            *)
(***************************************************************************)
\* dict.get(key, default)
Get(f, key, default) == IF key \in DOMAIN f THEN f[key] ELSE default

\* a variant that names the variable after the entry and compares it with
\* the switch head
JumpTableCond_Swapped(node_addr, head_addr) ==
    ClEq(create_jump_target_var(node_addr), BVV(head_addr, ArchBits))

\* the condition of a jump-table entry under its switch head
JumpTableCond(node_addr, head_addr) ==
    ClEq(create_jump_target_var(head_addr), BVV(node_addr, ArchBits))

\* a variant that conjoins the predecessors' shares
Accumulate_Conj(reaching_condition, pred_condition, edge_condition) ==
    IF reaching_condition = None THEN ClAnd(<<pred_condition, edge_condition>>)
    ELSE ClAnd(<<ClAnd(<<pred_condition, edge_condition>>), reaching_condition>>)

\* one predecessor's share of a reaching condition
Accumulate(reaching_condition, pred_condition, edge_condition) ==
    IF reaching_condition = None THEN ClAnd(<<pred_condition, edge_condition>>)
    ELSE ClOr(<<ClAnd(<<pred_condition, edge_condition>>), reaching_condition>>)

\* "elif idoms is not None and _strictly_postdominates(idoms, node, head):
\* reaching_conditions[node] = claripy.true()"
PostDominator(rc, node, head, postdominates) ==
    IF node # head /\ postdominates THEN (node :> ClTrue) @@ rc ELSE rc

\* a variant that stores nothing
Store_Never(rc, node, reaching_condition, simplify_conditions) == rc

\* "if reaching_condition is not None: reaching_conditions[node] = ..."
Store(rc, node, reaching_condition, simplify_conditions) ==
    IF reaching_condition # None
    THEN (node :> IF simplify_conditions
                  THEN simplify_condition(reaching_condition)
                  ELSE reaching_condition) @@ rc
    ELSE rc

RECURSIVE OverPreds(_, _, _, _, _, _)
\* the loop over the predecessors of node
OverPreds(preds, k, node, rc, ec, reaching_condition) ==
    IF k > Len(preds) THEN reaching_condition
    ELSE OverPreds(preds, k + 1, node, rc, ec,
             Accumulate(reaching_condition,
                        Get(rc, preds[k], ClTrue),
                        Get(ec, <<preds[k], node>>, ClTrue)))

RECURSIVE OverNodes(_, _, _, _, _, _, _, _)
\* the loop over sorted_nodes: acc is [rc, jtc], the reaching conditions
\* and the jump-table conditions so far
OverNodes(order, k, g, head, ec, cases, simplify_conditions, acc) ==
    IF k > Len(order) THEN acc
    ELSE LET node == order[k]
             Entry(switch, cond) ==
                 [rc |-> (node :> cond) @@ acc.rc,
                  jtc |-> (switch :> (Get(acc.jtc, switch, {}) \cup {cond})) @@ acc.jtc]
             Reached(reaching_condition, postdominates) ==
                 [acc EXCEPT !.rc =
                     Store(PostDominator(@, node, head, postdominates),
                           node, reaching_condition, simplify_conditions)]
             Visit(postdominates) ==
                 Reached(IF node = head THEN ClTrue
                         ELSE IF postdominates THEN None
                         ELSE OverPreds(Sorted(Predecessors(g, node)), 1, node,
                                        acc.rc, ec, None),
                         postdominates)
         IN OverNodes(order, k + 1, g, head, ec, cases, simplify_conditions,
                IF Addr(node) \in DOMAIN cases
                THEN Entry(cases[Addr(node)], JumpTableCond(Addr(node), cases[Addr(node)]))
                ELSE Visit(PostDominates(g, node, head)))

\* the successors of the nodes that reach the_node which do not reach it
NodesDoNotReach(g, the_node) ==
    {succ \in g.nodes :
        /\ ~Reaches(g, succ, the_node)
        /\ \E node_ \in Predecessors(g, succ) :
              node_ # the_node /\ Reaches(g, node_, the_node)}

RECURSIVE Diverging(_, _, _, _, _)
\* the conditions of the edges that enter nodes_do_not_reach_the_node from
\* outside it, in order
Diverging(edges, k, g, outside, ec) ==
    IF k > Len(edges) THEN <<>>
    ELSE (IF /\ edges[k][2] \in outside
             /\ edges[k][1] \notin outside
             /\ edges[k] \in DOMAIN ec
          THEN <<ec[edges[k]]>> ELSE <<>>)
         \o Diverging(edges, k + 1, g, outside, ec)

RECURSIVE MapNot(_)
MapNot(s) == IF s = <<>> THEN <<>> ELSE <<ClNot(Head(s))>> \o MapNot(Tail(s))

\* edges by destination, then source: "for node_ in ...: for pred_ in preds_"
Swap(e) == <<e[2], e[1]>>

RECURSIVE SwapAll(_)
SwapAll(s) == IF s = <<>> THEN <<>> ELSE <<Swap(Head(s))>> \o SwapAll(Tail(s))

RECURSIVE Guarding_AnyJoin(_, _, _, _, _)
\* the loop without the skip of the nodes that do not have two predecessors
Guarding_AnyJoin(order, k, g, ec, gc) ==
    IF k > Len(order) THEN gc
    ELSE LET the_node == order[k]
             Guard(diverging_conditions) ==
                 IF diverging_conditions # <<>>
                 THEN (the_node :> ClOr(MapNot(diverging_conditions))) @@ gc
                 ELSE gc
         IN Guarding_AnyJoin(order, k + 1, g, ec,
                Guard(Diverging(SwapAll(EdgeOrder({Swap(e) : e \in g.edges})), 1, g,
                                NodesDoNotReach(g, the_node), ec)))

RECURSIVE Guarding(_, _, _, _, _)
\* the loop that builds guarding_conditions
Guarding(order, k, g, ec, gc) ==
    IF k > Len(order) THEN gc
    ELSE LET the_node == order[k]
             Guard(diverging_conditions) ==
                 IF Cardinality(Predecessors(g, the_node)) = 2 /\ diverging_conditions # <<>>
                 THEN (the_node :> ClOr(MapNot(diverging_conditions))) @@ gc
                 ELSE gc
         IN Guarding(order, k + 1, g, ec,
                Guard(Diverging(SwapAll(EdgeOrder({Swap(e) : e \in g.edges})), 1, g,
                                NodesDoNotReach(g, the_node), ec)))

\* the identities of the graph objects: region.graph,
\* region.graph_with_successors, a graph of the caller's own, None
RegionGraph == "region.graph"

RegionGraphWithSuccessors == "region.graph_with_successors"

CallerGraph == "graph"

NoObject == "None"

\* r: the region [head, graph, graph_with_successors, blocks] and the graph
\* the caller may pass instead; graphs: the
\* graph objects by identity (NoGraph for None); graph: the identity of the
\* graph argument; case_entry_to_switch_head: << >> for None.
\* The result carries everything the call writes; of a call that an
\* exception ended at line 303, what it wrote to the processor before.
recover_reaching_conditions(r, graphs, graph, with_successors, case_entry_to_switch_head, simplify_conditions, m, exc, jtc) ==
    LET g0 == IF graphs[graph] # NoGraph THEN graph
              ELSE IF with_successors /\ graphs[RegionGraphWithSuccessors] # NoGraph
                   THEN RegionGraphWithSuccessors
                   ELSE RegionGraph
        HeadOf(g) == IF g # NoGraph
                     THEN CHOOSE n \in g.nodes :
                              /\ Predecessors(g, n) = {}
                              /\ \A o \in g.nodes : Predecessors(g, o) = {} => n <= o
                     ELSE r.head
        Publish(edges, t, _g, head, acc, guarding) ==
            [raised |-> FALSE,
             edge_conditions |-> edges.ec,
             m |-> edges.m,
             exc |-> edges.exc,
             graphs |-> t.graphs,
             given |-> g0,
             returned |-> t.graph,
             _g |-> _g,
             head |-> head,
             reaching_conditions |-> acc.rc,
             jump_table_conds |-> acc.jtc,
             guarding_conditions |-> guarding]
        Solve(edges, t, _g, head, sorted_nodes) ==
            Publish(edges, t, _g, head,
                    OverNodes(sorted_nodes, 1, _g, head, edges.ec, case_entry_to_switch_head,
                              simplify_conditions, [rc |-> <<>>, jtc |-> jtc]),
                    Guarding(sorted_nodes, 1, _g, edges.ec, <<>>))
        Sort(edges, t, _g, head) == Solve(edges, t, _g, head, quasi_topological_sort_nodes(_g))
        Trimmed(edges, t) ==
            IF edges.raised THEN [raised |-> TRUE, m |-> edges.m, exc |-> edges.exc]
            ELSE Sort(edges, t, t.graphs[t.graph], HeadOf(graphs[graph]))
    IN Trimmed(recover_edge_conditions(IF graphs[graph] # NoGraph THEN graphs[graph]
                                       ELSE graphs[RegionGraph],
                                       r.blocks, m, exc),
               IF case_entry_to_switch_head # <<>>
               THEN _remove_crossing_edges_between_cases(graphs, g0, case_entry_to_switch_head)
               ELSE [graphs |-> graphs, graph |-> g0])

(***************************************************************************)
(* The resilience wrapper of an analysis (angr/analyses/analysis.py).      *)
(* Lists and dictionaries are objects: an instance holds their identities, *)
(* listsById and dictsById hold their contents.                            *)
(***************************************************************************)
\* what a guarded block raises; "none" when it ends normally
Raised == {"none", "ValueError", "KeyError", "KeyboardInterrupt"}

\* the exception argument of _resilience
Guards == {"Exception", "ValueError"}

\* "except exception": isinstance(e, exception)
IsInstance(cls, exception) ==
    \/ cls = exception
    \/ exception = "Exception" /\ cls \in {"ValueError", "KeyError"}

\* name=None
NoName == "None"

\* the name argument of _resilience
Names == {NoName, "decompile"}

\* the fail_fast argument of prep
FailFastArgs == {"None", "True", "False"}

\* the lists of the class itself: errors = [] and named_errors = defaultdict(list)
ClassObject == 0

\* AnalysisLogEntry("exception occurred", exc_info=True)
AnalysisLogEntry(message, exc_type, exc_value) ==
    [message |-> message, exc_type |-> exc_type, exc_value |-> exc_value]

\* a variant in which the instance keeps the lists of its class
prep_ClassLists(fail_fast, testing, fresh) ==
    [_fail_fast |-> IF fail_fast = "None" THEN testing ELSE fail_fast = "True",
     errors |-> ClassObject, named_errors |-> ClassObject]

\* the instance the wrapper of prep makes: fresh is the identity of its new
\* errors list and of its new named_errors dictionary
prep(fail_fast, testing, fresh) ==
    [_fail_fast |-> IF fail_fast = "None" THEN testing ELSE fail_fast = "True",
     errors |-> fresh, named_errors |-> fresh]

\* a guarded block of self that raises "raised" (the exception object is
\* value): what happens to the exception, and the lists and dictionaries after
_resilience(self, name, exception, raised, value, lists, dicts) ==
    IF raised = "none" THEN [outcome |-> "continued", lists |-> lists, dicts |-> dicts]
    ELSE IF ~IsInstance(raised, exception)
    THEN [outcome |-> "propagated", lists |-> lists, dicts |-> dicts]
    ELSE IF self._fail_fast
    THEN [outcome |-> "propagated", lists |-> lists, dicts |-> dicts]
    ELSE LET error == AnalysisLogEntry("exception occurred", raised, value)
         IN IF name = NoName
            THEN [outcome |-> "continued",
                  lists |-> [lists EXCEPT ![self.errors] = Append(@, error)],
                  dicts |-> dicts]
            ELSE [outcome |-> "continued",
                  lists |-> lists,
                  dicts |-> [dicts EXCEPT ![self.named_errors] =
                                (name :> Append(Get(@, name, <<>>), error)) @@ @]]

(***************************************************************************)
(* State.                                                                  *)
(***************************************************************************)
VARIABLES
    pIn,      \* the condition handed to a rewrite pass
    pPass,    \* the pass that ran on it ("none" before any)
    pOut,     \* what the pass returned
    printed,  \* the terms _remove_redundant_terms printed as redundant
    cm,       \* ConditionProcessor._condition_mapping: symbol name -> AIL expression
    bIn,      \* the last claripy_ast_from_ail_condition call: <<expr, nobool, must_bool, ins_addr>>
    bCore,    \* the terms the last remove_claripy_bool_asts that returned handed to
              \* convert_claripy_bool_ast_core, in order
    bPrev,    \* the call before it, what it returned and the mapping it left, when
              \* nothing but a conversion back came between the two
    bOut,     \* the term it returned
    bBack,    \* convert_claripy_bool_ast of that term
    bOp,      \* the last bridge operation
    bCalls,   \* how many conversions were made
    region,   \* the region being structured: head, graphs, blocks
    options,  \* the arguments of the calls on it
    jump_table_conds,     \* ConditionProcessor.jump_table_conds
    reaching_conditions,  \* ConditionProcessor.reaching_conditions
    guarding_conditions,  \* ConditionProcessor.guarding_conditions
    exc_counter,          \* the processor's EXC_COUNTER
    edge_conditions,      \* the edge conditions of the last call
    solved,               \* the graph the last call solved, its head, its case map,
                          \* the graph objects given and returned, whether it began cleared
    runs,                 \* what every call published, on which processor, and the
                          \* conditions it recovered for exception edges
    sOp,                  \* the last solver operation
    graphsById,           \* the graph objects by identity
    opposite,             \* the last have_opposite_edge_conditions call and its answer
    is_testing,   \* angr.misc.testing.is_testing
    instances,    \* the analysis instances made through the factory
    listsById,    \* the contents of every errors list
    dictsById,    \* the contents of every named_errors dictionary
    guarded,      \* every _resilience block entered, with what became of it
    aOp,          \* the last operation on an analysis
    locations,    \* the code location objects made, by identity
    lOp           \* the last operation on a code location

passVars == <<pIn, pPass, pOut, printed>>

bridgeVars == <<cm, bIn, bPrev, bCore, bOut, bBack, bOp, bCalls>>

solverVars ==
    <<region, options, jump_table_conds, reaching_conditions, guarding_conditions,
      exc_counter, edge_conditions, solved, runs, sOp, graphsById, opposite>>

analysisVars == <<is_testing, instances, listsById, dictsById, guarded, aOp>>

locationVars == <<locations, lOp>>

vars ==
    <<pIn, pPass, pOut, printed, cm, bIn, bPrev, bCore, bOut,
      bBack, bOp, bCalls, region, options,
      jump_table_conds, reaching_conditions, guarding_conditions, exc_counter,
      edge_conditions, solved, runs, sOp, graphsById, opposite,
      is_testing, instances, listsById, dictsById, guarded, aOp,
      locations, lOp>>

NoCall == <<NoExpr, FALSE, FALSE, 0>>

NoPrev == [call |-> NoCall, r |-> None, m |-> <<>>, op |-> "off"]

BridgeIdle ==
    /\ bIn = NoCall /\ bPrev = NoPrev /\ bCore = <<>> /\ bOut = None /\ bBack = NoExpr
    /\ bOp = "off" /\ bCalls = 0

BridgeOff == cm = <<>> /\ BridgeIdle

SolverOff ==
    /\ region = NoGraph /\ options = NoGraph
    /\ jump_table_conds = <<>> /\ reaching_conditions = <<>> /\ guarding_conditions = <<>>
    /\ exc_counter = EXC_COUNTER /\ edge_conditions = <<>>
    /\ solved = NoGraph /\ runs = <<>> /\ sOp = "off" /\ graphsById = <<>>
    /\ opposite = NoGraph

PassOff == pIn = None /\ pPass = "off" /\ pOut = None /\ printed = {}

AnalysisOff ==
    /\ is_testing = FALSE /\ instances = <<>>
    /\ listsById = (ClassObject :> <<>>) /\ dictsById = (ClassObject :> <<>>)
    /\ guarded = <<>> /\ aOp = "off"

LocationsOff == locations = <<>> /\ lOp = [op |-> "off"]

(***************************************************************************)
(* The rewrite passes on bounded conditions.                               *)
(***************************************************************************)
PassAtoms == {BoolS("A"), BoolS("B"), BoolS("C")}

Lits == PassAtoms \cup {Mk("Not", <<a>>) : a \in PassAtoms}

AtomOf(l) == IF l.op = "Not" THEN l.args[1] ELSE l

\* And nodes of 2..MaxConj literals over different symbols
Conjs ==
    {Mk("And", s) : s \in {q \in UNION {[1..k -> Lits] : k \in 2..MaxConj} :
        \A i, j \in DOMAIN q : i # j => AtomOf(q[i]) # AtomOf(q[j])}}

Arms == Lits \cup Conjs

\* the arms an Or may have after its first two
MoreArms == {BoolS("C"), Mk("Not", <<BoolS("C")>>), Mk("And", <<BoolS("A"), BoolS("C")>>)}

\* Or nodes of 2..MaxArms different arms
Disjs ==
    {Mk("Or", q) : q \in {s \o r : s \in {t \in [1..2 -> Arms] : t[1] # t[2]},
                                   r \in UNION {[1..k -> MoreArms] : k \in 0..(MaxArms - 2)}}
                          \cap {q \in Seq(Arms) : \A i, j \in DOMAIN q : i # j => q[i] # q[j]}}

Negs ==
    {Mk("Not", <<x>>) : x \in Lits \cup {c \in Conjs : Len(c.args) <= 3}
                                 \cup {Mk("Or", s) : s \in [1..2 -> Lits]}}

PassInputs == Lits \cup Conjs \cup Disjs \cup Negs

PassInit ==
    /\ pIn \in PassInputs /\ pPass = "none" /\ pOut = None /\ printed = {}
    /\ BridgeOff /\ SolverOff /\ AnalysisOff /\ LocationsOff

RevertShortCircuit ==
    /\ pPass = "none"
    /\ pPass' = "revert"
    /\ pOut' = _revert_short_circuit_conditions(pIn)
    /\ UNCHANGED <<pIn, printed, bridgeVars, solverVars, analysisVars, locationVars>>

FoldDoubleNegations ==
    /\ pPass = "none"
    /\ pPass' = "fold"
    /\ pOut' = _fold_double_negations(pIn)
    /\ UNCHANGED <<pIn, printed, bridgeVars, solverVars, analysisVars, locationVars>>

ExtractCommonSubexpressions ==
    /\ pPass = "none"
    /\ pPass' = "extract"
    /\ pOut' = _extract_common_subexpressions(pIn)
    /\ UNCHANGED <<pIn, printed, bridgeVars, solverVars, analysisVars, locationVars>>

PassNext == RevertShortCircuit \/ FoldDoubleNegations \/ ExtractCommonSubexpressions

SpecPass == PassInit /\ [][PassNext]_vars

(***************************************************************************)
(* Minimisation and redundant-term detection on conditions at and past the *)
(* size limits.                                                            *)
(***************************************************************************)
MaxGateSymbols == 9

MaxGateNots == 8

GateSymbols == <<"a", "b", "c", "d", "e", "f", "g", "h", "i", "j", "k">>

\* n different atoms; with "AndNe" the first is the comparison x != 1
GateBody(shape, n) ==
    LET atom(i) == IF shape = "AndNe" /\ i = 1
                   THEN Mk("__ne__", <<BVS("x", ArchBits), BVV(1, ArchBits)>>)
                   ELSE BoolS(GateSymbols[i])
    IN IF n = 1 THEN atom(1)
       ELSE Mk(IF shape = "Or" THEN "Or" ELSE "And", [i \in 1..n |-> atom(i)])

RECURSIVE Negated(_, _)
\* t under k Not nodes, as a caller that does not simplify builds it
Negated(t, k) == IF k = 0 THEN t ELSE Mk("Not", <<Negated(t, k - 1)>>)

GateInputs ==
    {Negated(GateBody(shape, n), k) :
        shape \in {"And", "Or", "AndNe"}, n \in 1..MaxGateSymbols, k \in 0..MaxGateNots}

\* conditions with a term that does not matter, and some without
RedundantInputs ==
    {Mk("Or", <<a, Mk("And", <<a, b>>)>>) : a, b \in Lits}
    \cup {Mk("And", <<a, Mk("Or", <<a, b>>)>>) : a, b \in Lits}
    \cup {Mk("Or", <<a, b>>) : a, b \in Lits}
    \cup {Mk(op, <<Mk(c1, <<BVS("x", ArchBits), BVV(1, ArchBits)>>),
                   Mk(c2, <<BVS("x", ArchBits), BVV(v, ArchBits)>>)>>) :
             op \in {"And", "Or"}, c1, c2 \in {"__eq__", "__ne__"}, v \in {1, 2}}

SimplifyInit ==
    /\ pIn \in GateInputs \cup RedundantInputs
    /\ pPass = "none" /\ pOut = None /\ printed = {}
    /\ BridgeOff /\ SolverOff /\ AnalysisOff /\ LocationsOff

SimplifyCondition ==
    /\ pPass = "none"
    /\ pPass' = "simplify"
    /\ pOut' = simplify_condition(pIn)
    /\ UNCHANGED <<pIn, printed, bridgeVars, solverVars, analysisVars, locationVars>>

RemoveRedundantTerms ==
    /\ pPass = "none"
    /\ pPass' = "redundant"
    /\ \E all_terms_without_negs \in TermsWithoutNegs(pIn) :
          LET done == _remove_redundant_terms(pIn, all_terms_without_negs)
          IN pOut' = done.returned /\ printed' = done.printed
    /\ UNCHANGED <<pIn, bridgeVars, solverVars, analysisVars, locationVars>>

SimplifyNext == SimplifyCondition \/ RemoveRedundantTerms

SpecSimplify == SimplifyInit /\ [][SimplifyNext]_vars

(***************************************************************************)
(* The bridge on one processor: conversions of bounded AIL expressions,    *)
(* the way back, and clear().                                              *)
(***************************************************************************)
R0 == Register(0, 8)

R1 == Register(1, 8)

R2 == Register(2, 16)

T0 == Tmp(0, 1)

T1 == Tmp(1, 1)

K1 == Const(1, 8)

BridgeLeaves == {R0, R1, T0, K1}

SignedCmps == {"CmpLE", "CmpLT", "CmpGE", "CmpGT"}

\* one modeled operator applied to leaves
ModeledExprs ==
    {BinaryOp(op, <<R0, R1>>, FALSE, 1) : op \in {"CmpEQ", "CmpNE"} \cup SignedCmps}
    \cup {BinaryOp(op, <<R0, R1>>, TRUE, 1) : op \in SignedCmps}
    \cup {BinaryOp(op, <<R0, R1>>, FALSE, 8) :
              op \in {"Add", "Sub", "Mul", "Div", "Mod", "Xor", "And", "Or"}}
    \cup {BinaryOp(op, <<R0, a>>, FALSE, 8) : op \in {"Shr", "Shl", "Sar"}, a \in {R1, K1}}
    \cup {BinaryOp("Shl", <<R2, R1>>, FALSE, 16)}
    \cup {BinaryOp("Concat", <<R0, R1>>, FALSE, 16)}
    \cup {BinaryOp(op, <<T0, T1>>, FALSE, 1) : op \in {"LogicalAnd", "LogicalOr"}}
    \cup {UnaryOp("Not", T0, 1), UnaryOp("Neg", R0, 8), UnaryOp("BitwiseNeg", R0, 8)}

ConvertExprs ==
    {Convert(8, 32, sg, R0) : sg \in BOOLEAN} \cup {Convert(8, 1, FALSE, R0)}

UnmodeledExprs ==
    {BinaryOp(op, <<R0, R1>>, FALSE, 8) : op \in {"Rol", "Carry", "ExpCmpNE", "Fancy"}}

BridgeExprs == BridgeLeaves \cup ModeledExprs \cup ConvertExprs \cup UnmodeledExprs

\* the calls made: every expression plainly, the leaves at a second
\* instruction, the boolean-valued ones as bit-vectors, the one-bit ones as
\* booleans
BridgeCalls ==
    {<<e, FALSE, FALSE, 16>> : e \in BridgeExprs}
    \cup {<<e, FALSE, FALSE, 32>> : e \in BridgeLeaves}
    \cup {<<e, TRUE, FALSE, 16>> : e \in {x \in ModeledExprs : x.bits = 1} \cup ConvertExprs}
    \cup {<<e, FALSE, TRUE, 16>> : e \in {x \in BridgeExprs : x.bits = 1}}

BridgeInit ==
    /\ cm = <<>> /\ bIn = NoCall /\ bPrev = NoPrev /\ bCore = <<>>
    /\ bOut = None /\ bBack = NoExpr
    /\ bOp = "new" /\ bCalls = 0
    /\ PassOff /\ SolverOff /\ AnalysisOff /\ LocationsOff

FromAil ==
    /\ bCalls < MaxBridgeCalls
    /\ \E call \in BridgeCalls :
          LET res == claripy_ast_from_ail_condition(call[1], call[2], call[3], call[4], cm)
          IN /\ cm' = res.m
             /\ bOut' = res.r
             /\ bIn' = call
             /\ bPrev' = IF bOp \in {"conv", "back"}
                         THEN [call |-> bIn, r |-> bOut, m |-> cm, op |-> bOp]
                         ELSE NoPrev
    /\ bBack' = NoExpr
    /\ bCore' = <<>>
    /\ bOp' = "conv"
    /\ bCalls' = bCalls + 1
    /\ UNCHANGED <<passVars, solverVars, analysisVars, locationVars>>

ToAil ==
    /\ bOp = "conv"
    /\ bBack' = convert_claripy_bool_ast(bOut, cm)
    /\ bOp' = "back"
    /\ UNCHANGED <<cm, bIn, bPrev, bCore, bOut, bCalls, passVars, solverVars, analysisVars, locationVars>>

\* the terms a caller builds around a converted term t: t itself, t under
\* an operator the reverse table has no row for, t next to a symbol that
\* was never recorded
Around(t) ==
    IF IsBV(t)
    THEN {t, BVOp("SignExt", <<t>>, t.bits + 8), ClEq(t, BVS("unrecorded", t.bits))}
    ELSE {t, Mk("And", <<t, BoolS("unrecorded")>>), Mk("Or", <<Mk("If", <<t>>), t>>)}

\* the structured nodes that hold the condition c
Holders(c) ==
    {CodeNode(PlainBlock, c),
     ConditionalBreakNode(c),
     ConditionNode(None, c, PlainBlock, PlainBlock),
     SequenceNode(<<PlainBlock, CodeNode(PlainBlock, None), ConditionalBreakNode(c)>>),
     SequenceNode(<<ConditionNode(c, c, CodeNode(PlainBlock, c), PlainBlock)>>),
     LoopNode(c, SequenceNode(<<ConditionalBreakNode(c), LoopNode(None, PlainBlock)>>)),
     CascadingConditionNode(<<c, Mk("Not", <<c>>)>>,
                            <<CodeNode(PlainBlock, c), PlainBlock>>, ConditionalBreakNode(c)),
     SwitchCaseNode(R0, <<ConditionalBreakNode(c), CodeNode(PlainBlock, c)>>, None),
     IncompleteSwitchCaseNode(MultiNode(<<PlainBlock, PlainBlock>>),
                              <<ConditionalBreakNode(c), LoopNode(c, PlainBlock)>>)}

\* convert_claripy_bool_ast(cond) on a term built around the last one
ToAilAround ==
    /\ bOp \in {"conv", "clear"}
    /\ bOut # None
    /\ \E cond \in Around(bOut) :
          /\ bOut' = cond
          /\ bBack' = convert_claripy_bool_ast(cond, cm)
    /\ bOp' = "convert"
    /\ UNCHANGED <<cm, bIn, bPrev, bCore, bCalls, passVars, solverVars, analysisVars, locationVars>>

\* remove_claripy_bool_asts(node) on a node that holds a term built around
\* the last one
RemoveAsts ==
    /\ bOp \in {"conv", "clear"}
    /\ bOut # None
    /\ \E cond \in Around(bOut) :
          /\ bOut' = cond
          /\ \E node \in Holders(cond) :
                LET Returned(r) ==
                        /\ bBack' = r
                        /\ bCore' = IF r = NotImplementedError THEN <<>>
                                    ELSE MemoOf(node, cm).core
                IN Returned(remove_claripy_bool_asts(node, cm))
    /\ bOp' = "remove"
    /\ UNCHANGED <<cm, bIn, bPrev, bCalls, passVars, solverVars, analysisVars, locationVars>>

\* ConditionProcessor.clear()
ClearMapping ==
    /\ bOp \in {"conv", "back"}
    /\ cm' = <<>>
    /\ bOp' = "clear"
    /\ UNCHANGED <<bIn, bPrev, bCore, bOut, bBack, bCalls, passVars, solverVars, analysisVars, locationVars>>

BridgeNext == FromAil \/ ToAil \/ ToAilAround \/ RemoveAsts \/ ClearMapping

SpecBridge == BridgeInit /\ [][BridgeNext]_vars

(***************************************************************************)
(* The solver on one region: recover_reaching_conditions, clear(), a new   *)
(* processor.                                                              *)
(***************************************************************************)
RegionNodes == 1..NNodes

\* the node after the region, in graph_with_successors only
SuccessorNode == NNodes + 1

ForwardEdges == {e \in RegionNodes \X RegionNodes : e[1] < e[2]}

\* the acyclic edge sets in which the head reaches every node
RegionEdges ==
    {E \in SUBSET ForwardEdges : \A n \in RegionNodes \ {1} : \E e \in E : e[2] = n}

\* the region graph with an edge to the successor from every end node
WithSuccessors(g) ==
    Graph(g.nodes \cup {SuccessorNode},
          g.edges \cup {<<n, SuccessorNode>> : n \in {x \in g.nodes : Successors(g, x) = {}}},
          g.exc)

Largest(S) == CHOOSE x \in S : \A y \in S : y <= x

Smallest(S) == CHOOSE x \in S : \A y \in S : x <= y

\* the blocks a node with the successors succs can be
BlockKinds == {"cjump", "cjump_other", "cjump_same", "cjump_false", "cjump_reg", "ijump",
               "jump", "empty", "assign", "condbreak", "region",
               "seq_empty", "seq_tail_empty", "multi_empty", "multi_tail_empty"}

BlockOf(kind, n, succs) ==
    LET first == Const(Addr(Smallest(succs)), ArchBits)
        last == Const(Addr(Largest(succs)), ArchBits)
        CJ(c, t) == NodeOf("Block", <<Stmt("ConditionalJump", c, t, Addr(n))>>, None, 0)
        IJ == NodeOf("Block", <<Stmt("Jump", NoExpr, Register(n, ArchBits), Addr(n))>>, None, 0)
    IN CASE kind = "cjump" -> CJ(Tmp(n, 1), first)
         [] kind = "cjump_other" -> CJ(Tmp(n, 1), last)
         [] kind = "cjump_same" -> CJ(Tmp(0, 1), first)
         [] kind = "cjump_false" -> CJ(Const(0, 1), first)
         [] kind = "cjump_reg" -> CJ(Tmp(n, 1), Register(9, ArchBits))
         [] kind = "ijump" -> IJ
         [] kind = "jump" -> NodeOf("Block", <<Stmt("Jump", NoExpr, first, Addr(n))>>, None, 0)
         [] kind = "empty" -> NodeOf("Block", <<>>, None, 0)
         [] kind = "assign" ->
                NodeOf("Block", <<Stmt("Assignment", NoExpr, NoExpr, Addr(n))>>, None, 0)
         [] kind = "condbreak" ->
                NodeOf("ConditionalBreakNode", <<>>, BoolS("brk"), Addr(Smallest(succs)))
         [] kind = "region" -> NodeOf("GraphRegion", <<>>, None, 0)
         [] kind = "seq_empty" -> NodesOf("SequenceNode", <<>>)
         [] kind = "seq_tail_empty" -> NodesOf("SequenceNode", <<IJ, NodeOf("Block", <<>>, None, 0)>>)
         [] kind = "multi_empty" ->
                NodesOf("MultiNode", <<NodeOf("Block", <<>>, None, 0), NodeOf("Block", <<>>, None, 0)>>)
         [] kind = "multi_tail_empty" ->
                NodesOf("MultiNode", <<IJ, NodeOf("Block", <<>>, None, 0)>>)

\* a block with more than two successors does not end in a two-way branch
KindFor(kind, succs) ==
    IF /\ Cardinality(succs) > 2
       /\ kind \in {"cjump", "cjump_other", "cjump_same", "cjump_false", "cjump_reg",
                    "condbreak"}
    THEN "ijump"
    ELSE kind

\* the region graph with edges to two nodes after the region from every end
\* node
WithTwoSuccessors(g) ==
    Graph(g.nodes \cup {SuccessorNode, SuccessorNode + 1},
          g.edges \cup ({x \in g.nodes : Successors(g, x) = {}}
                            \X {SuccessorNode, SuccessorNode + 1}),
          g.exc)

\* a region on the graph g whose head is of kind k1 and whose other nodes
\* are of kind k2; full is g with the edges that leave the region
RegionWith(g, full, k1, k2, graph_with_successors) ==
    [head |-> 1,
     graph |-> g,
     graph_with_successors |-> graph_with_successors,
     caller |-> WithSuccessors(g),
     blocks |-> [n \in RegionNodes |->
                    BlockOf(KindFor(IF n = 1 THEN k1 ELSE k2, Successors(full, n)),
                            n, Successors(full, n))]]

\* a region whose head is of kind k1 and whose other nodes are of kind k2;
\* an end node of the region has the node after the region as its successor
RegionOf(E, X, k1, k2, succ) ==
    LET With(g, full) == RegionWith(g, full, k1, k2, IF succ THEN full ELSE NoGraph)
    IN With(Graph(RegionNodes, E, X), WithSuccessors(Graph(RegionNodes, E, X)))

\* the switch a case entry belongs to: the entries before the last node
\* are cases of one switch, the last node is a case of another; both switch
\* heads lie outside the region
SwitchHeadOf(n) == IF n < NNodes THEN Addr(NNodes + 2) ELSE Addr(NNodes + 3)

\* the case-entry maps with at most MaxCases entries
CaseMaps ==
    {[a \in {Addr(n) : n \in D} |-> SwitchHeadOf(CHOOSE n \in D : Addr(n) = a)] :
        D \in {S \in SUBSET RegionNodes : Cardinality(S) <= MaxCases}}

Restrict(f, D) == [x \in D |-> f[x]]

\* the graph argument of a call: None, region.graph itself, a graph of
\* the caller's own
GraphArg(which) ==
    CASE which = "none" -> NoObject
      [] which = "region" -> RegionGraph
      [] which = "full" -> CallerGraph

\* the graph objects there are before a call
GraphObjects(r) ==
    (NoObject :> NoGraph) @@ (RegionGraph :> r.graph)
    @@ (RegionGraphWithSuccessors :> r.graph_with_successors)
    @@ (CallerGraph :> r.caller)

ExcChoices(E) == {X \in SUBSET E : Cardinality(X) <= MaxExc}

Options(graph, with_successors, simplify_conditions, cases) ==
    [graph |-> graph, with_successors |-> with_successors,
     simplify_conditions |-> simplify_conditions, cases |-> cases]

Input(r, o) == [region |-> r, options |-> o]

\* The regions and calls tried, one aspect varied at a time: the kinds of
\* the blocks; the exception edges; the graph solved; the case-entry map.
BlockInputs ==
    {Input(RegionOf(E, {}, k1, k2, FALSE), Options("none", FALSE, TRUE, <<>>)) :
        E \in RegionEdges, k1 \in BlockKinds,
        k2 \in {"cjump", "cjump_same", "cjump_false", "ijump", "assign", "condbreak"}}

ExcInputs ==
    UNION {{Input(RegionOf(E, X, k1, "cjump", FALSE), Options("none", FALSE, s, <<>>)) :
               X \in ExcChoices(E), s \in BOOLEAN, k1 \in {"cjump", "condbreak", "empty"}} :
           E \in RegionEdges}

GraphInputs ==
    {Input(RegionOf(E, {}, "cjump", "cjump", succ), Options(g, w, s, <<>>)) :
        E \in RegionEdges, succ \in BOOLEAN, g \in {"none", "region", "full"},
        w \in BOOLEAN, s \in BOOLEAN}

CaseInputs ==
    {Input(RegionOf(E, {}, "cjump", "cjump", FALSE), Options(g, FALSE, TRUE, c)) :
        E \in RegionEdges, c \in CaseMaps, g \in {"none", "full"}}

\* regions whose end nodes branch to two nodes after the region, solved on
\* the graph with successors
SuccessorInputs ==
    {Input(RegionWith(Graph(RegionNodes, E, {}), WithTwoSuccessors(Graph(RegionNodes, E, {})),
                      "cjump", "cjump", WithTwoSuccessors(Graph(RegionNodes, E, {}))),
           Options("none", w, s, <<>>)) :
        E \in RegionEdges, w \in BOOLEAN, s \in BOOLEAN}

\* the region graph with edges to the node after the region from the nodes
\* of S1 and to a second one from the nodes of S2
WithExits(g, S1, S2) ==
    Graph(g.nodes \cup (IF S1 = {} THEN {} ELSE {SuccessorNode})
                  \cup (IF S2 = {} THEN {} ELSE {SuccessorNode + 1}),
          g.edges \cup (S1 \X {SuccessorNode}) \cup (S2 \X {SuccessorNode + 1}),
          g.exc)

\* regions that any node may leave and every end node does, solved on a
\* graph of the caller's that has the edges that leave the region
ExitInputs ==
    UNION {{Input([RegionWith(Graph(RegionNodes, E, {}),
                              WithExits(Graph(RegionNodes, E, {}), S1, S2),
                              "cjump", "cjump", NoGraph)
                      EXCEPT !.caller = WithExits(Graph(RegionNodes, E, {}), S1, S2)],
                  Options("full", FALSE, FALSE, <<>>)) :
               S1 \in {S \in SUBSET RegionNodes :
                          \A n \in RegionNodes : \E e \in E \cup (S \X {0}) : e[1] = n},
               S2 \in SUBSET {NNodes}} :
           E \in RegionEdges}

SolveInputs ==
    BlockInputs \cup ExcInputs \cup GraphInputs \cup CaseInputs \cup SuccessorInputs
    \cup ExitInputs

SolveInit ==
    /\ \E i \in SolveInputs : region = i.region /\ options = i.options
    /\ cm = <<>>
    /\ jump_table_conds = <<>>
    /\ reaching_conditions = <<>>
    /\ guarding_conditions = <<>>
    /\ exc_counter = EXC_COUNTER
    /\ edge_conditions = <<>>
    /\ solved = [g |-> NoGraph, head |-> 0, cases |-> <<>>, fresh |-> FALSE,
                 given |-> NoObject, returned |-> NoObject, cleared |-> TRUE]
    /\ graphsById = GraphObjects(region)
    /\ opposite = NoGraph
    /\ runs = <<>>
    /\ sOp = "new"
    /\ PassOff /\ BridgeIdle /\ AnalysisOff /\ LocationsOff

\* recover_reaching_conditions(region, graph, with_successors, cases, simplify)
Recover ==
    /\ sOp # "off"
    /\ Len(runs) < MaxRuns
    /\ \E D \in SUBSET DOMAIN options.cases :
          LET Returned(cases, res) ==
                  /\ ~res.raised
                  /\ cm' = res.m
                  /\ exc_counter' = res.exc
                  /\ jump_table_conds' = res.jump_table_conds
                  /\ reaching_conditions' = res.reaching_conditions
                  /\ guarding_conditions' = res.guarding_conditions
                  /\ edge_conditions' = res.edge_conditions
                  /\ solved' = [g |-> res._g, head |-> res.head, cases |-> cases,
                                fresh |-> cm = <<>>,
                                given |-> res.given, returned |-> res.returned,
                                cleared |-> jump_table_conds = <<>>]
                  /\ graphsById' = res.graphs
                  /\ runs' = Append(runs, [cases |-> cases, fresh |-> cm = <<>>,
                                           reaching_conditions |-> res.reaching_conditions,
                                           guarding_conditions |-> res.guarding_conditions,
                                           processor |-> Len(SelectSeq(runs, LAMBDA r : r.first))
                                                         + (IF sOp = "new" THEN 1 ELSE 0),
                                           first |-> sOp = "new",
                                           exception_conditions |->
                                               Restrict(res.edge_conditions,
                                                        DOMAIN res.edge_conditions \cap res._g.exc)])
              Call(cases) ==
                  Returned(cases,
                           recover_reaching_conditions(
                               region, graphsById, GraphArg(options.graph),
                               options.with_successors, cases, options.simplify_conditions,
                               cm, exc_counter, jump_table_conds))
          IN Call(Restrict(options.cases, D))
    /\ sOp' = "recover"
    /\ UNCHANGED <<region, options, opposite, passVars, bIn, bPrev, bCore, bOut, bBack, bOp, bCalls, analysisVars, locationVars>>

\* the region with a node get_last_statement does not support in the place
\* of its last node that has a successor
Unsupported(r) ==
    LET n == Largest({e[1] : e \in r.graph.edges})
    IN [r EXCEPT !.blocks[n] = NodeOf("BlockNode", <<>>, None, 0)]

\* a call that resets the published conditions before it computes them
RecoverRaises_ResetFirst ==
    /\ sOp = "recover"
    /\ \E D \in SUBSET DOMAIN options.cases :
          LET Leaves(res) ==
                  /\ res.raised
                  /\ cm' = res.m
                  /\ exc_counter' = res.exc
          IN Leaves(recover_reaching_conditions(
                        Unsupported(region), graphsById, GraphArg(options.graph),
                        options.with_successors, Restrict(options.cases, D),
                        options.simplify_conditions, cm, exc_counter, jump_table_conds))
    /\ reaching_conditions' = <<>>
    /\ guarding_conditions' = <<>>
    /\ sOp' = "raised"
    /\ UNCHANGED <<region, options, jump_table_conds, edge_conditions, solved, runs, graphsById,
                   opposite,
                   passVars, bIn, bPrev, bCore, bOut, bBack, bOp, bCalls, analysisVars, locationVars>>

\* recover_reaching_conditions on the region with an unsupported node, after
\* a call that returned: the NotImplementedError of get_last_statement
\* leaves recover_edge_conditions and the call
RecoverRaises ==
    /\ sOp = "recover"
    /\ \E D \in SUBSET DOMAIN options.cases :
          LET Leaves(res) ==
                  /\ res.raised
                  /\ cm' = res.m
                  /\ exc_counter' = res.exc
          IN Leaves(recover_reaching_conditions(
                        Unsupported(region), graphsById, GraphArg(options.graph),
                        options.with_successors, Restrict(options.cases, D),
                        options.simplify_conditions, cm, exc_counter, jump_table_conds))
    /\ sOp' = "raised"
    /\ UNCHANGED <<region, options, jump_table_conds, reaching_conditions,
                   guarding_conditions, edge_conditions, solved, runs, graphsById,
                   opposite,
                   passVars, bIn, bPrev, bCore, bOut, bBack, bOp, bCalls, analysisVars, locationVars>>

\* ConditionProcessor.clear()
Clear ==
    /\ sOp = "recover"
    /\ Len(runs) < MaxRuns
    /\ cm' = <<>>
    /\ jump_table_conds' = <<>>
    /\ reaching_conditions' = <<>>
    /\ guarding_conditions' = <<>>
    /\ sOp' = "clear"
    /\ UNCHANGED <<region, options, exc_counter, edge_conditions, solved, runs, graphsById,
                   opposite,
                   passVars, bIn, bPrev, bCore, bOut, bBack, bOp, bCalls, analysisVars, locationVars>>

\* ConditionProcessor(arch): a new processor for the same region
NewProcessor ==
    /\ sOp = "recover"
    /\ Len(runs) < MaxRuns
    /\ cm' = <<>>
    /\ jump_table_conds' = <<>>
    /\ reaching_conditions' = <<>>
    /\ guarding_conditions' = <<>>
    /\ exc_counter' = EXC_COUNTER
    /\ sOp' = "new"
    /\ UNCHANGED <<region, options, edge_conditions, solved, runs, graphsById,
                   opposite,
                   passVars, bIn, bPrev, bCore, bOut, bBack, bOp, bCalls, analysisVars, locationVars>>

(***************************************************************************)
(* have_opposite_edge_conditions on the edges of one region.               *)
(***************************************************************************)
OppositeInit ==
    /\ \E i \in BlockInputs \cup ExcInputs : region = i.region /\ options = i.options
    /\ cm = <<>>
    /\ jump_table_conds = <<>>
    /\ reaching_conditions = <<>>
    /\ guarding_conditions = <<>>
    /\ exc_counter = EXC_COUNTER
    /\ edge_conditions = <<>>
    /\ solved = NoGraph
    /\ graphsById = GraphObjects(region)
    /\ opposite = NoGraph
    /\ runs = <<>>
    /\ sOp = "new"
    /\ PassOff /\ BridgeIdle /\ AnalysisOff /\ LocationsOff

\* have_opposite_edge_conditions(region.graph, src, dst0, dst1) on a source
\* with a successor
HaveOppositeEdgeConditions ==
    /\ sOp = "new"
    /\ \E src \in {e[1] : e \in region.graph.edges} :
          \E dst0, dst1 \in region.graph.nodes \ {src} :
              LET Answered(res) ==
                      /\ opposite' = [src |-> src, dst0 |-> dst0, dst1 |-> dst1,
                                      raised |-> res.raised, r |-> res.r,
                                      m |-> cm, exc |-> exc_counter]
                      /\ cm' = res.m
                      /\ exc_counter' = res.exc
              IN Answered(have_opposite_edge_conditions(
                              region.graph, region.blocks, src, dst0, dst1, cm, exc_counter))
    /\ sOp' = "opposite"
    /\ UNCHANGED <<region, options, jump_table_conds, reaching_conditions,
                   guarding_conditions, edge_conditions, solved, runs, graphsById,
                   passVars, bIn, bPrev, bCore, bOut, bBack, bOp, bCalls, analysisVars, locationVars>>

OppositeNext == HaveOppositeEdgeConditions

SpecOpposite == OppositeInit /\ [][OppositeNext]_vars

SolveNext == Recover \/ RecoverRaises \/ Clear \/ NewProcessor

SpecSolve == SolveInit /\ [][SolveNext]_vars

(***************************************************************************)
(* Analyses made through the factory and their guarded blocks.             *)
(***************************************************************************)
AnalysisInit ==
    /\ is_testing \in BOOLEAN
    /\ instances = <<>>
    /\ listsById = (ClassObject :> <<>>)
    /\ dictsById = (ClassObject :> <<>>)
    /\ guarded = <<>>
    /\ aOp = "new"
    /\ PassOff /\ BridgeOff /\ SolverOff /\ LocationsOff

\* AnalysisFactory.prep(fail_fast)(...): the wrapper makes an instance with
\* a new errors list and a new named_errors dictionary
Prep ==
    /\ Len(instances) < MaxInstances
    /\ \E fail_fast \in FailFastArgs :
          LET Made(fresh) ==
                  /\ instances' = Append(instances, prep(fail_fast, is_testing, fresh))
                  /\ listsById' = (fresh :> <<>>) @@ listsById
                  /\ dictsById' = (fresh :> <<>>) @@ dictsById
          IN Made(Len(instances) + 1)
    /\ aOp' = "prep"
    /\ UNCHANGED <<is_testing, guarded, passVars, bridgeVars, solverVars, locationVars>>

\* "with self._resilience(name, exception): ..." in an instance, the body
\* raising an exception or none
Resilience ==
    /\ Len(guarded) < MaxBlocks
    /\ \E i \in 1..Len(instances), name \in Names, exception \in Guards, raised \in Raised :
          LET Left(res) ==
                  /\ listsById' = res.lists
                  /\ dictsById' = res.dicts
                  /\ guarded' = Append(guarded, [instance |-> i, name |-> name,
                                                 exception |-> exception, raised |-> raised,
                                                 outcome |-> res.outcome])
          IN Left(_resilience(instances[i], name, exception, raised, Len(guarded) + 1,
                              listsById, dictsById))
    /\ aOp' = "resilience"
    /\ UNCHANGED <<is_testing, instances, passVars, bridgeVars, solverVars, locationVars>>

AnalysisNext == Prep \/ Resilience

SpecAnalysis == AnalysisInit /\ [][AnalysisNext]_vars

(***************************************************************************)
(* Code locations (angr/code_location.py).  An optional field is <<>> when  *)
(* it is None and <<v>> when it holds v.                                   *)
(***************************************************************************)
Absent == <<>>

Given(v) == <<v>>

\* hash() of a tuple: a function of the tuple's value alone; the tuples met
\* here are short tuples of None, small non-negative integers, one class
\* object and tuples of those, which CPython hashes to different values when
\* they differ
hash(t) == [hash_of |-> t]

\* CodeLocation.__init__ with ExternalCodeLocation's call_string slot left unset
CodeLocation(block_addr, stmt_idx, sim_procedure, ins_addr, context, block_idx, kwargs) ==
    [type |-> "CodeLocation", block_addr |-> block_addr, stmt_idx |-> stmt_idx,
     sim_procedure |-> sim_procedure, ins_addr |-> ins_addr, context |-> context,
     block_idx |-> block_idx, _hash |-> Absent,
     info |-> IF kwargs # <<>> THEN Given(kwargs) ELSE Absent,
     call_string |-> Absent]

\* ExternalCodeLocation.__init__: super().__init__(0, None), then call_string or ()
ExternalCodeLocation(call_string) ==
    [CodeLocation(Given(0), Absent, Absent, Absent, Absent, Absent, <<>>) EXCEPT
        !.type = "ExternalCodeLocation",
        !.call_string = IF call_string # Absent THEN call_string ELSE Given(<<>>)]

\* CodeLocation.__eq__, which ExternalCodeLocation inherits
__eq__(self, other) ==
    /\ self.type = other.type
    /\ self.block_addr = other.block_addr
    /\ self.stmt_idx = other.stmt_idx
    /\ self.sim_procedure = other.sim_procedure
    /\ self.context = other.context
    /\ self.block_idx = other.block_idx
    /\ self.ins_addr = other.ins_addr

\* the tuple CodeLocation.__hash__ and ExternalCodeLocation.__hash__ hash
HashedFields(self) ==
    IF self.type = "ExternalCodeLocation"
    THEN <<self.call_string>>
    ELSE <<self.block_addr, self.stmt_idx, self.sim_procedure, self.ins_addr,
           self.context, self.block_idx>>

\* __hash__ of either class: the object with its cache filled, and the value returned
__hash__(self) ==
    LET filled == IF self._hash = Absent
                  THEN [self EXCEPT !._hash = Given(hash(HashedFields(self)))]
                  ELSE self
    IN [self |-> filled, r |-> filled._hash[1]]

MaxLocations == 2

BlockAddrs == {Absent, Given(0)}

StmtIdxs == {Absent, Given(0)}

SimProcedures == {Absent, Given("ReturnUnconstrained")}

InsAddrs == {Absent, Given(16)}

Contexts == {Absent, Given(<<1>>)}

BlockIdxs == {Absent, Given(1)}

Kwargs == {<<>>, [tag |-> "def"]}

CallStrings == {Absent, Given(<<>>), Given(<<1>>), Given(<<2>>)}

LocationsInit ==
    /\ locations = <<>> /\ lOp = [op |-> "none"]
    /\ PassOff /\ BridgeOff /\ SolverOff /\ AnalysisOff

NewCodeLocation ==
    /\ Len(locations) < MaxLocations
    /\ \E block_addr \in BlockAddrs, stmt_idx \in StmtIdxs, sim_procedure \in SimProcedures,
          ins_addr \in InsAddrs, context \in Contexts, block_idx \in BlockIdxs,
          kwargs \in Kwargs :
          locations' = Append(locations,
                              CodeLocation(block_addr, stmt_idx, sim_procedure, ins_addr,
                                           context, block_idx, kwargs))
    /\ lOp' = [op |-> "CodeLocation"]
    /\ UNCHANGED <<passVars, bridgeVars, solverVars, analysisVars>>

NewExternalCodeLocation ==
    /\ Len(locations) < MaxLocations
    /\ \E call_string \in CallStrings :
          locations' = Append(locations, ExternalCodeLocation(call_string))
    /\ lOp' = [op |-> "ExternalCodeLocation"]
    /\ UNCHANGED <<passVars, bridgeVars, solverVars, analysisVars>>

\* a == b
EqLocations ==
    /\ \E a \in DOMAIN locations, b \in DOMAIN locations :
          lOp' = [op |-> "eq", a |-> a, b |-> b, r |-> __eq__(locations[a], locations[b])]
    /\ UNCHANGED <<locations, passVars, bridgeVars, solverVars, analysisVars>>

\* hash(a)
HashLocation ==
    /\ \E a \in DOMAIN locations :
          /\ locations' = [locations EXCEPT ![a] = __hash__(locations[a]).self]
          /\ lOp' = [op |-> "hash", a |-> a, r |-> __hash__(locations[a]).r]
    /\ UNCHANGED <<passVars, bridgeVars, solverVars, analysisVars>>

LocationsNext == NewCodeLocation \/ NewExternalCodeLocation \/ EqLocations \/ HashLocation

SpecLocations == LocationsInit /\ [][LocationsNext]_vars

(***************************************************************************)
(* Claims about the rewrite passes (SpecPass).                             *)
(***************************************************************************)
\* pIn is !A || (A' && !B): an Or of a negation and a two-term And whose
\* first term is equivalent to A and whose second is a negation
IsShortCircuit(c) ==
    /\ c.op = "Or" /\ Len(c.args) = 2
    /\ c.args[1].op = "Not"
    /\ c.args[2].op = "And" /\ Len(c.args[2].args) = 2
    /\ c.args[2].args[2].op = "Not"
    /\ Equivalent(c.args[2].args[1], c.args[1].args[1])

\* C6: _revert_short_circuit_conditions returns a condition equivalent to
\* its input, whatever the number of Or arms and of conjuncts in an And arm,
\* and on !A || (A' && !B) it returns !(A && B).
C6_RevertSound ==
    pPass = "revert" =>
        /\ Equivalent(pIn, pOut)
        /\ IsShortCircuit(pIn) =>
               pOut = Mk("Not", <<Mk("And", <<pIn.args[1].args[1],
                                              pIn.args[2].args[2].args[1]>>)>>)

\* C7: whenever _fold_double_negations returns a rewritten condition it is
\* equivalent to the input; !(!A) gives A, !(!A && !B) gives A || B,
\* !(!A && B) gives A || !B and !(A || B) gives !A && !B.
C7_FoldSound ==
    pPass = "fold" =>
        /\ pOut # None => Equivalent(pIn, pOut)
        /\ \A a, b \in PassAtoms :
              /\ pIn = Mk("Not", <<Mk("Not", <<a>>)>>) => pOut = a
              /\ a # b /\ pIn = Mk("Not", <<Mk("And", <<Mk("Not", <<a>>), Mk("Not", <<b>>)>>)>>)
                    => pOut = Mk("Or", <<a, b>>)
              /\ a # b /\ pIn = Mk("Not", <<Mk("And", <<Mk("Not", <<a>>), b>>)>>)
                    => pOut = Mk("Or", <<a, Mk("Not", <<b>>)>>)
              /\ a # b /\ pIn = Mk("Not", <<Mk("Or", <<a, b>>)>>)
                    => pOut = Mk("And", <<Mk("Not", <<a>>), Mk("Not", <<b>>)>>)

\* C8: whenever _extract_common_subexpressions returns a rewritten condition
\* for an Or of And arms and single terms, it is equivalent to the input, and
\* (A && B) || (A && C) becomes A && (B || C).
C8_ExtractSound ==
    pPass = "extract" /\ pIn.op = "Or" /\ pOut # None /\ pOut # Unreachable =>
        /\ Equivalent(pIn, pOut)
        /\ \A a, b, c \in PassAtoms :
              Cardinality({a, b, c}) = 3
              /\ pIn = Mk("Or", <<Mk("And", <<a, b>>), Mk("And", <<a, c>>)>>)
              => pOut = Mk("And", <<a, Mk("Or", <<b, c>>)>>)

(***************************************************************************)
(* Claims about the bridge (SpecBridge).                                   *)
(***************************************************************************)
\* C9: the way back of the conversion of a modeled operator applied to
\* leaves has the same operator and the same signedness, and its operands
\* are the expressions recorded for the leaves' symbols.
C9_RoundTrip ==
    bOp = "back" /\ bIn[1] \in ModeledExprs /\ ~bIn[2] /\ ~bIn[3] =>
        /\ bBack.kind = bIn[1].kind
        /\ bBack.op = bIn[1].op
        /\ bBack.signed = bIn[1].signed
        /\ \A i \in 1..Len(bBack.operands) :
              bBack.operands[i].kind \in {"Register", "Tmp"} =>
                  bBack.operands[i] = bIn[1].operands[i]

\* C10: without a clear(), an entry of the condition mapping is never
\* replaced by a structurally different expression.
C10_AppendOnly ==
    [][bOp' # "clear" =>
          \A n \in DOMAIN cm : n \in DOMAIN cm' /\ cm'[n] = cm[n]]_vars

(***************************************************************************)
(* Claims about the solver (SpecSolve).                                    *)
(***************************************************************************)
\* C1: two calls on the same region with the same arguments, each started
\* with an empty condition mapping (a new processor, or the same one after
\* clear()), publish the same reaching and guarding conditions.
C1_Deterministic ==
    \A i, j \in 1..Len(runs) :
        runs[i].fresh /\ runs[j].fresh /\ runs[i].cases = runs[j].cases =>
            /\ runs[i].reaching_conditions = runs[j].reaching_conditions
            /\ runs[i].guarding_conditions = runs[j].guarding_conditions

\* C2: after a call the reaching condition of the head is the constant
\* true, with or without a case-entry map.
C2_HeadTrue ==
    sOp = "recover" =>
        /\ solved.head \in DOMAIN reaching_conditions
        /\ reaching_conditions[solved.head] = ClTrue

\* some valuation makes every term of S true
JointlySatisfiable(S) == \E v \in Valuations(S) : \A t \in S : Eval(t, v)

RECURSIVE Paths(_, _, _)
\* the paths from a to b in g, each as its set of edges
Paths(g, a, b) ==
    IF a = b THEN {{}}
    ELSE UNION {{p \cup {<<a, s>>} : p \in Paths(g, s, b)} : s \in Successors(g, a)}

\* some path from a to b has edge conditions that can hold together (an
\* edge without a recovered condition counts as true, as in the solver)
Feasible(g, ec, a, b) ==
    \E p \in Paths(g, a, b) : JointlySatisfiable({Get(ec, e, ClTrue) : e \in p})

C4_JumpTableExclusive ==
    \A h \in DOMAIN jump_table_conds :
        \A c1, c2 \in jump_table_conds[h] :
            /\ c1.op = "__eq__"
            /\ c1.args[1] = create_jump_target_var(h)
            /\ c1.args[2].op = "BVV"
            /\ c1 # c2 => c1.args[2].val # c2.args[2].val /\ Exclusive(c1, c2)

\* C4 witness: after two calls with different case-entry maps a switch head
\* has two conditions.
C4_Witness ==
    /\ sOp = "recover" /\ Len(runs) = 2 /\ runs[1].cases # runs[2].cases
    /\ \A i \in 1..2 : Cardinality(DOMAIN runs[i].cases) = 1
    /\ \E h \in DOMAIN jump_table_conds : Cardinality(jump_table_conds[h]) >= 2

\* C5: the conditions recovered for the two transition edges of a block
\* that ends in a conditional jump are negations of each other.
C5_OppositeEdges ==
    sOp = "recover" =>
        \A e0, e1 \in DOMAIN edge_conditions :
            /\ e0[1] = e1[1] /\ e0[2] # e1[2]
            /\ e0[1] \in DOMAIN region.blocks
            /\ get_last_statement(region.blocks[e0[1]]).kind = "ConditionalJump"
            /\ Cardinality({e \in DOMAIN edge_conditions : e[1] = e0[1]}) = 2
            /\ {e0, e1} \cap region.graph.exc = {}
            => Equivalent(edge_conditions[e0], ClNot(edge_conditions[e1]))

(***************************************************************************)
(* Claims about the result of recover_reaching_conditions (SpecSolve).     *)
(***************************************************************************)
\* C11: after recover_reaching_conditions returns, reaching_conditions has
\* a condition for every node of the graph that was solved, and for no
\* other node.
C11_Total == sOp = "recover" => DOMAIN reaching_conditions = solved.g.nodes

\* C11 witness: a call with a case-entry map returned after edge trimming
\* removed an edge of the region graph.
C11_Witness ==
    /\ sOp = "recover"
    /\ solved.cases # <<>>
    /\ solved.g.edges # region.graph.edges
    /\ DOMAIN reaching_conditions = solved.g.nodes

(***************************************************************************)
(* Claims about the conversion back to AIL (SpecBridge).                   *)
(***************************************************************************)
RECURSIVE HasNoInverse(_, _)
\* the term holds a symbol the mapping does not record or an operator the
\* reverse table has no row for
HasNoInverse(t, m) ==
    \/ t.op \in {"BVS", "BoolS"} /\ t.name \notin DOMAIN m
    \/ t.op \notin {"BVS", "BoolS", "BVV", "BoolV"} \cup DOMAIN UnaryRows \cup BinaryRowOps
    \/ \E i \in 1..Len(t.args) : HasNoInverse(t.args[i], m)

\* C12: convert_claripy_bool_ast and remove_claripy_bool_asts, given a term
\* that holds a node without an inverse, end in the error and return no
\* expression.
C12_MissingInverseFatal ==
    bOp \in {"convert", "remove"} /\ HasNoInverse(bOut, cm) => bBack = NotImplementedError

\* C12 witness: remove_claripy_bool_asts ended in the error on a node whose
\* condition holds an operator without a row, all of its symbols recorded.
C12_Witness ==
    /\ bOp = "remove"
    /\ bBack = NotImplementedError
    /\ Variables(bOut) \subseteq DOMAIN cm
    /\ HasNoInverse(bOut, cm)

(***************************************************************************)
(* Claims about the recovery of edge conditions (SpecSolve).               *)
(***************************************************************************)
\* locating the terminator of the source of the edge raises EmptyBlockNotice
RaisesNotice(r, g, edge) ==
    /\ edge[1] \in DOMAIN r.blocks
    /\ EdgeType(g, edge) # "exception"
    /\ r.blocks[edge[1]].type \in {"Block", "SequenceNode", "MultiNode"}
    /\ get_last_statement(r.blocks[edge[1]]) = EmptyBlockNotice

\* C13: when locating the terminator of the source of an edge raises the
\* empty-block notice, the condition recovered for the edge is the constant
\* true, and recover_reaching_conditions returns with a condition for every
\* node and no notice left in a condition.
C13_EmptyBlockTrue ==
    sOp = "recover" =>
        /\ \A edge \in DOMAIN edge_conditions :
              /\ edge_conditions[edge] # EmptyBlockRaised
              /\ RaisesNotice(region, solved.g, edge) => edge_conditions[edge] = ClTrue
        /\ DOMAIN reaching_conditions = solved.g.nodes
        /\ \A n \in DOMAIN reaching_conditions : reaching_conditions[n] # EmptyBlockRaised

\* C13 witness: a call returned on a region whose head is a multi-node of
\* only empty blocks with two successors; both edges have the condition true.
C13_Witness ==
    /\ sOp = "recover"
    /\ region.blocks[solved.head].type = "MultiNode"
    /\ Cardinality({e \in DOMAIN edge_conditions : e[1] = solved.head}) = 2
    /\ \A e \in DOMAIN edge_conditions :
          e[1] = solved.head => RaisesNotice(region, solved.g, e) /\ edge_conditions[e] = ClTrue

(***************************************************************************)
(* Claims about the resilience wrapper (SpecAnalysis).                     *)
(***************************************************************************)
\* how many entries of the list hold the exception object value
Holding(list, value) == Cardinality({k \in 1..Len(list) : list[k].exc_value = value})

RECURSIVE Sum(_, _)
Sum(f, S) == IF S = {} THEN 0 ELSE LET x == CHOOSE y \in S : TRUE IN f[x] + Sum(f, S \ {x})

\* how many entries of the dictionary hold the exception object value
HoldingNamed(dict, value) == Sum([n \in DOMAIN dict |-> Holding(dict[n], value)], DOMAIN dict)

\* how many entries anywhere hold the exception object value
HoldingAnywhere(value) ==
    Sum([o \in DOMAIN listsById |-> Holding(listsById[o], value)], DOMAIN listsById)
    + Sum([o \in DOMAIN dictsById |-> HoldingNamed(dictsById[o], value)], DOMAIN dictsById)

\* the exception objects recorded in the lists of the instance
RecordedIn(self) ==
    {listsById[self.errors][k].exc_value : k \in 1..Len(listsById[self.errors])}
    \cup UNION {{dictsById[self.named_errors][n][k].exc_value :
                    k \in 1..Len(dictsById[self.named_errors][n])} :
                n \in DOMAIN dictsById[self.named_errors]}

\* C14: an exception of the guarded class raised in a _resilience block is,
\* when _fail_fast is false, kept from the caller and recorded as exactly
\* one entry, in errors when no name is given and in named_errors[name]
\* otherwise, and execution continues after the block; when _fail_fast is
\* true it reaches the caller and nothing is recorded.  The lists of an
\* instance made through the factory hold only what that instance recorded.
C14_Resilience ==
    /\ \A b \in 1..Len(guarded) :
          LET self == instances[guarded[b].instance]
          IN guarded[b].raised # "none" /\ IsInstance(guarded[b].raised, guarded[b].exception) =>
                IF self._fail_fast
                THEN guarded[b].outcome = "propagated" /\ HoldingAnywhere(b) = 0
                ELSE /\ guarded[b].outcome = "continued"
                     /\ HoldingAnywhere(b) = 1
                     /\ IF guarded[b].name = NoName
                        THEN Holding(listsById[self.errors], b) = 1
                        ELSE /\ guarded[b].name \in DOMAIN dictsById[self.named_errors]
                             /\ Holding(dictsById[self.named_errors][guarded[b].name], b) = 1
    /\ \A i \in 1..Len(instances) :
          \A b \in RecordedIn(instances[i]) : guarded[b].instance = i

\* C14 witness: of two instances one, with _fail_fast false, recorded an
\* exception under a name and continued, and the other, with _fail_fast
\* true, let an exception of the guarded class reach its caller.
C14_Witness ==
    \E b1, b2 \in 1..Len(guarded) :
        /\ guarded[b1].instance # guarded[b2].instance
        /\ ~instances[guarded[b1].instance]._fail_fast
        /\ guarded[b1].name # NoName /\ guarded[b1].outcome = "continued"
        /\ Holding(Get(dictsById[instances[guarded[b1].instance].named_errors],
                       guarded[b1].name, <<>>), b1) = 1
        /\ instances[guarded[b2].instance]._fail_fast
        /\ guarded[b2].raised # "none" /\ IsInstance(guarded[b2].raised, guarded[b2].exception)
        /\ guarded[b2].outcome = "propagated"

(***************************************************************************)
(* Claims about the graph objects (SpecSolve).                             *)
(***************************************************************************)
\* C15: recover_reaching_conditions, with or without a case-entry map,
\* leaves the nodes and edges of every graph object it was given as they
\* were (the graph argument, region.graph, region.graph_with_successors);
\* the graph it solved is the object it was given when trimming removed no
\* edge, and a new object otherwise.
C15_GraphsReadOnly ==
    sOp # "off" =>
        /\ \A o \in {NoObject, RegionGraph, RegionGraphWithSuccessors, CallerGraph} :
              graphsById[o] = GraphObjects(region)[o]
        /\ sOp = "recover" =>
              /\ solved.g = graphsById[solved.returned]
              /\ IF solved.g.edges = graphsById[solved.given].edges
                 THEN solved.returned = solved.given
                 ELSE solved.returned = Filtered

\* C15 witness: a call with a case-entry map on the caller's own graph
\* returned after trimming removed an edge; the caller's graph has its edges.
C15_Witness ==
    /\ sOp = "recover"
    /\ solved.cases # <<>>
    /\ solved.given = CallerGraph
    /\ solved.returned = Filtered
    /\ solved.g.edges # graphsById[CallerGraph].edges
    /\ graphsById[CallerGraph] = WithSuccessors(region.graph)

(***************************************************************************)
(* Claims about the reaching conditions (SpecSolve).                       *)
(***************************************************************************)
\* the node is not the head and every way from the head to an end of the
\* solved graph goes through it
StrictlyPostDominatesHead(n) == n # solved.head /\ PostDominates(solved.g, n, solved.head)

\* the node is a jump-table entry of the call
IsCaseEntry(n) == Addr(n) \in DOMAIN solved.cases

\* C16: every node other than the head that post-dominates the head has
\* the reaching condition true.
C16_PostDominatorTrue ==
    sOp = "recover" =>
        \A n \in solved.g.nodes :
            StrictlyPostDominatesHead(n) =>
                n \in DOMAIN reaching_conditions /\ reaching_conditions[n] = ClTrue

\* the predicate _extract_predicate yields for an edge of the solved graph
Extracted(edge) ==
    IF edge \in DOMAIN edge_conditions THEN edge_conditions[edge]
    ELSE recover_edge_condition(solved.g, region.blocks, edge[1], edge[2], cm, exc_counter).r

\* the Or, over the predecessors of the node in the solved graph, of the
\* predecessor's reaching condition And the predicate of the edge
Propagated(n) ==
    OverPreds(Sorted(Predecessors(solved.g, n)), 1, n, reaching_conditions,
              [e \in {x \in solved.g.edges : x[1] \in DOMAIN region.blocks} |-> Extracted(e)],
              None)

\* C17: the reaching condition of a node that is neither the head, nor a
\* jump-table entry, nor a post-dominator of the head is the Or, over its
\* predecessors in the solved graph, of the predecessor's reaching
\* condition And the predicate of the edge: that very term when
\* simplification is disabled, an equivalent one when it is enabled; also
\* when the graph solved is the graph with successors.
C17_Propagation ==
    sOp = "recover" =>
        \A n \in solved.g.nodes :
            n # solved.head /\ ~IsCaseEntry(n) /\ ~StrictlyPostDominatesHead(n) =>
                /\ n \in DOMAIN reaching_conditions
                /\ IF options.simplify_conditions
                   THEN Equivalent(reaching_conditions[n], Propagated(n))
                   ELSE reaching_conditions[n] = Propagated(n)

\* the case-entry map names one switch head, and every entry is a node of
\* the solved graph
OneJumpTable(cases, g, h) ==
    /\ cases # <<>>
    /\ \A a \in DOMAIN cases : cases[a] = h /\ \E n \in g.nodes : Addr(n) = a

\* C18: after a call on a cleared processor with a case-entry map of one
\* switch head whose N entries are nodes of the graph, the reaching
\* condition of every entry is the equality of the head's jump-target
\* variable with the entry's address, whatever its predecessors and their
\* edges, and jump_table_conds holds exactly these N conditions for the head.
C18_JumpTableEntries ==
    sOp = "recover" /\ solved.cleared =>
        \A h \in {solved.cases[a] : a \in DOMAIN solved.cases} :
            OneJumpTable(solved.cases, solved.g, h) =>
                /\ \A n \in solved.g.nodes :
                      IsCaseEntry(n) =>
                          reaching_conditions[n] =
                              ClEq(create_jump_target_var(h), BVV(Addr(n), ArchBits))
                /\ DOMAIN jump_table_conds = {h}
                /\ jump_table_conds[h] =
                      {ClEq(create_jump_target_var(h), BVV(a, ArchBits)) : a \in DOMAIN solved.cases}
                /\ Cardinality(jump_table_conds[h]) = Cardinality(DOMAIN solved.cases)

\* C18 witness: a call on a cleared processor with two entries of one
\* switch, one of them with a predecessor whose reaching condition is not a
\* constant; jump_table_conds has two conditions for the head.
C18_Witness ==
    /\ sOp = "recover" /\ solved.cleared
    /\ Cardinality(DOMAIN solved.cases) = 2
    /\ \E h \in DOMAIN jump_table_conds :
          /\ OneJumpTable(solved.cases, solved.g, h)
          /\ Cardinality(jump_table_conds[h]) = 2
    /\ \E n \in solved.g.nodes :
          /\ IsCaseEntry(n)
          /\ \E p \in Predecessors(region.graph, n) :
                /\ reaching_conditions[p].op # "BoolV"
                /\ edge_conditions[<<p, n>>].op # "BoolV"

(***************************************************************************)
(* Claims about edge trimming (SpecSolve).                                 *)
(***************************************************************************)
RECURSIVE BodyFrom(_, _, _)
\* the nodes reached from the frontier without entering a node of entries
BodyFrom(g, entries, frontier) ==
    LET next == UNION {Successors(g, n) : n \in frontier} \ (entries \cup frontier)
    IN IF next = {} THEN frontier ELSE BodyFrom(g, entries, frontier \cup next)

\* the body of the case that begins at entry: the nodes reached from it
\* without entering another case entry
Body(g, entries, entry) == BodyFrom(g, entries \ {entry}, {entry})

\* the cases in whose body the node lies
CasesOf(g, entries, n) == {c \in entries : n \in Body(g, entries, c)}

\* C19: every edge that _remove_crossing_edges_between_cases removed either
\* enters a case entry or goes from the body of one case into the body of
\* another, and no removed edge has both ends in the body of one single
\* case only.
C19_OnlyCrossing ==
    sOp = "recover" /\ solved.cases # <<>> =>
        LET g == graphsById[solved.given]
            entries == {n \in g.nodes : Addr(n) \in DOMAIN solved.cases}
        IN \A e \in g.edges \ solved.g.edges :
              /\ \/ e[2] \in entries
                 \/ \E c1, c2 \in entries :
                       c1 # c2 /\ e[1] \in Body(g, entries, c1) /\ e[2] \in Body(g, entries, c2)
              /\ ~\E c \in entries :
                     CasesOf(g, entries, e[1]) = {c} /\ CasesOf(g, entries, e[2]) = {c}

(***************************************************************************)
(* Claims about the predicates of exception edges (SpecSolve).             *)
(***************************************************************************)
\* the equality of a register's symbol with a constant above EXC_COUNTER
KeyedEquality(p) ==
    /\ p.op = "__eq__"
    /\ p.args[1].op = "BVS"
    /\ p.args[2].op = "BVV" /\ p.args[2].val > EXC_COUNTER

\* C20: of the predicates one processor returned for exception edges, in
\* one call or in several, no two are equal or equivalent and none is the
\* negation of another; and the predicate of an exception edge is the keyed
\* equality whatever the source node ends in.
C20_ExceptionEdgesKeyed ==
    \A i, j \in 1..Len(runs) :
        \A e1 \in DOMAIN runs[i].exception_conditions :
            /\ KeyedEquality(runs[i].exception_conditions[e1])
            /\ \A e2 \in DOMAIN runs[j].exception_conditions :
                  runs[i].processor = runs[j].processor /\ (i # j \/ e1 # e2) =>
                      LET Differ(p1, p2) ==
                              /\ p1 # p2 /\ p1 # ClNot(p2)
                              /\ ~Equivalent(p1, p2) /\ ~Equivalent(p1, ClNot(p2))
                      IN Differ(runs[i].exception_conditions[e1],
                                runs[j].exception_conditions[e2])

\* C20 witness: a processor was called twice, with a clear() in between, on
\* a region with two exception edges into one node, one of them leaving a
\* ConditionalBreakNode; the four predicates are keyed equalities.
C20_Witness ==
    /\ sOp = "recover" /\ Len(runs) = 2
    /\ runs[1].processor = runs[2].processor
    /\ runs[2].fresh
    /\ region.blocks[1].type = "ConditionalBreakNode"
    /\ \E e1, e2 \in DOMAIN runs[2].exception_conditions :
          /\ e1 # e2 /\ e1[1] = 1 /\ e1[2] = e2[2]
          /\ \A e \in {e1, e2} :
                /\ KeyedEquality(runs[1].exception_conditions[e])
                /\ KeyedEquality(runs[2].exception_conditions[e])


(***************************************************************************)
(* C21: simplify_condition hands a condition back as it is when its depth  *)
(* is above depth_limit or it has more than variables_limit symbols; a     *)
(* condition within both limits, depth 8 with 8 symbols included, goes     *)
(* through the minimiser, and what comes back is a sum of products over    *)
(* atoms of the input that is equivalent to the input.                     *)
(***************************************************************************)
IsLiteral(t) ==
    \/ t.op \notin {"And", "Or", "Not", "BoolV"}
    \/ t.op = "Not" /\ t.args[1].op \notin {"And", "Or", "Not", "BoolV"}

IsProduct(t) ==
    IsLiteral(t) \/ (t.op = "And" /\ \A i \in 1..Len(t.args) : IsLiteral(t.args[i]))

\* what sympy_expr_to_claripy_ast builds from a minimised expression
IsSumOfProducts(t) ==
    \/ t.op = "BoolV"
    \/ IsProduct(t)
    \/ t.op = "Or" /\ \A i \in 1..Len(t.args) : IsProduct(t.args[i])

OverLimits(t) == Depth(t) > 8 \/ Cardinality(Variables(t)) > 8

C21_SizeGate ==
    pPass = "simplify" =>
        IF OverLimits(pIn) THEN pOut = pIn
        ELSE /\ IsSumOfProducts(pOut)
             /\ {a \in SympyAtoms(pOut) : a.op # "BoolV"} \subseteq SympyAtoms(pIn)
             /\ Equivalent(pIn, pOut)

\* a condition of depth 8 with 8 symbols was minimised into something else
C21_Witness ==
    /\ pPass = "simplify"
    /\ Depth(pIn) = 8 /\ Cardinality(Variables(pIn)) = 8
    /\ pOut # pIn


(***************************************************************************)
(* C26: _remove_redundant_terms leaves its condition as it was and returns *)
(* no condition; every term it reports as redundant can be fixed to true   *)
(* and to false, its negation to the opposite, without changing the truth  *)
(* of the condition under any valuation.                                   *)
(***************************************************************************)
RECURSIVE EvalFixed(_, _, _, _)
\* the truth of t under v when the term is b whatever v says
EvalFixed(t, v, term, b) ==
    CASE t.op = "Not" -> ~EvalFixed(t.args[1], v, term, b)
      [] t.op = "And" -> \A i \in 1..Len(t.args) : EvalFixed(t.args[i], v, term, b)
      [] t.op = "Or" -> \E i \in 1..Len(t.args) : EvalFixed(t.args[i], v, term, b)
      [] OTHER -> IF t = term THEN b
                  ELSE IF t = ClNot(term) THEN ~b
                  ELSE Eval(t, v)

DoesNotMatter(cond, term) ==
    \A v \in Valuations({cond}) : \A b \in BOOLEAN :
        EvalFixed(cond, v, term, b) = Eval(cond, v)

C26_CommitsNothing ==
    [][pPass' = "redundant" =>
          /\ pIn' = pIn
          /\ pOut' = None
          /\ \A term \in printed' : DoesNotMatter(pIn, term)]_vars

\* a term was reported as redundant and nothing was returned
C26_Witness ==
    /\ pPass = "redundant"
    /\ printed # {}
    /\ pOut = None


(***************************************************************************)
(* Claims about the guarding conditions (SpecSolve).                       *)
(***************************************************************************)
TwoPredecessors(n) == Cardinality(Predecessors(solved.g, n)) = 2

\* the edges of the solved graph that leave the ways to n: the source can
\* reach n, the destination cannot
LeavingEdges(n) ==
    {e \in solved.g.edges : Reaches(solved.g, e[1], n) /\ ~Reaches(solved.g, e[2], n)}

RECURSIVE NegatedPredicates(_)
\* the negations of the predicates of the edges, in ascending order
NegatedPredicates(edges) ==
    IF edges = <<>> THEN <<>>
    ELSE <<ClNot(Extracted(Head(edges)))>> \o NegatedPredicates(Tail(edges))

\* C23: the guarding condition published for a node with two predecessors
\* is the Or of the negations of the predicates of exactly the edges whose
\* source can reach the node and whose destination is a successor of the
\* source that cannot; an edge whose source cannot reach the node does not
\* contribute.
C23_GuardingValue ==
    sOp = "recover" =>
        \A n \in DOMAIN guarding_conditions :
            TwoPredecessors(n) =>
                Equivalent(guarding_conditions[n],
                           ClOr(NegatedPredicates(EdgeOrder(LeavingEdges(n)))))


(***************************************************************************)
(* Claims about repeated conversions (SpecBridge).                         *)
(***************************************************************************)
\* the last two calls of claripy_ast_from_ail_condition were made one after
\* the other with the same expression, flags and instruction address
SameCallTwice ==
    /\ bOp = "conv" /\ bCalls >= 2
    /\ bPrev.op \in {"conv", "back"}
    /\ bPrev.call = bIn

\* C24: a second call of claripy_ast_from_ail_condition with the same
\* expression, the same nobool and must_bool flags and the same instruction
\* address returns the term the first call returned and leaves the
\* condition mapping as the first call left it.
C24_Idempotent ==
    SameCallTwice => bOut = bPrev.r /\ cm = bPrev.m

\* a call was repeated whose result has a symbol recorded in the mapping:
\* a leaf, a symbol for an operator without a row, a 1-bit coercion
C24_Witness ==
    /\ SameCallTwice
    /\ Variables(bOut) \cap DOMAIN cm # {}
    /\ \/ bIn[1] \in UnmodeledExprs
       \/ bIn[2] /\ bOut.op = "BVS"
       \/ bIn[3] /\ bOut.op = "BoolS"


(***************************************************************************)
(* Claims about remove_claripy_bool_asts (SpecBridge).                     *)
(***************************************************************************)
RECURSIVE NoTermLeft(_)
\* no condition of the node or of a node below it is a claripy term
NoTermLeft(node) ==
    \/ node = None
    \/ /\ "type" \in DOMAIN node
       /\ node.reaching_condition = None \/ ~IsClaripy(node.reaching_condition)
       /\ node.condition = None \/ ~IsClaripy(node.condition)
       /\ \A i \in 1..Len(node.conditions) : ~IsClaripy(node.conditions[i])
       /\ \A i \in 1..Len(node.nodes) : NoTermLeft(node.nodes[i])

\* the node kinds in the tree
RECURSIVE KindsIn(_)
KindsIn(node) ==
    IF node = None THEN {}
    ELSE {node.type} \cup UNION {KindsIn(node.nodes[i]) : i \in 1..Len(node.nodes)}

\* C25: in the tree remove_claripy_bool_asts returns, no condition of a
\* sequence, multi, code, conditional, cascading-conditional,
\* conditional-break, loop, switch or incomplete-switch node, at any depth,
\* is a claripy term any more: each is an AIL expression; and within the
\* call no term was handed to convert_claripy_bool_ast_core twice.
C25_Materialized ==
    bOp = "remove" /\ bBack # NotImplementedError =>
        /\ NoTermLeft(bBack)
        /\ \A i, j \in 1..Len(bCore) : i # j => bCore[i] # bCore[j]

\* a tree came back in which a term occurred several times under a loop
\* inside another node kind, and the core was called for the term and for
\* a term inside it
C25_Witness ==
    /\ bOp = "remove" /\ bBack # NotImplementedError
    /\ {"IncompleteSwitchCaseNode", "LoopNode", "ConditionalBreakNode"} \subseteq KindsIn(bBack)
    /\ Len(bCore) >= 2
    /\ bBack.nodes[2].condition = bBack.nodes[3].condition
    /\ ~IsClaripy(bBack.nodes[2].condition)


(***************************************************************************)
(* Claims about what recover_reaching_conditions publishes (SpecSolve).    *)
(***************************************************************************)
Range(f) == {f[x] : x \in DOMAIN f}

\* the reaching, guarding and jump-table conditions there are
Published ==
    Range(reaching_conditions) \cup Range(guarding_conditions)
    \cup UNION Range(jump_table_conds)

\* the symbols of the conditions the blocks of the region came with
GivenSymbols ==
    UNION {Variables(region.blocks[n].condition) :
              n \in {x \in DOMAIN region.blocks : region.blocks[x].condition # None}}

\* C27: every symbol of a published reaching, guarding or jump-table
\* condition that the processor made itself is recorded in the condition
\* mapping, and convert_claripy_bool_ast returns an expression for the
\* condition.
C27_Materializable ==
    sOp = "recover" =>
        \A c \in Published :
            Variables(c) \cap GivenSymbols = {} =>
                /\ Variables(c) \subseteq DOMAIN cm
                /\ convert_claripy_bool_ast(c, cm) # NotImplementedError


\* C28: a call of recover_reaching_conditions that an exception ends leaves
\* reaching_conditions and guarding_conditions as they were before it; the
\* two change only when a call returns, both with the results of that call,
\* or when the processor is cleared or replaced.
C28_Atomic ==
    [][/\ sOp' = "raised" =>
              /\ reaching_conditions' = reaching_conditions
              /\ guarding_conditions' = guarding_conditions
       /\ reaching_conditions' # reaching_conditions \/ guarding_conditions' # guarding_conditions =>
              \/ /\ sOp' = "recover"
                 /\ runs' # runs
                 /\ reaching_conditions' = runs'[Len(runs')].reaching_conditions
                 /\ guarding_conditions' = runs'[Len(runs')].guarding_conditions
              \/ sOp' \in {"clear", "new"}]_vars

\* a call raised after an exception edge made it count and convert: the
\* counter has moved and the conditions of the call before are still there
C28_Witness ==
    /\ sOp = "raised"
    /\ reaching_conditions # <<>> /\ guarding_conditions # <<>>
    /\ reaching_conditions = runs[Len(runs)].reaching_conditions
    /\ Len(runs) >= 1
    /\ exc_counter > EXC_COUNTER + Cardinality(region.graph.exc)


(***************************************************************************)
(* Claims about have_opposite_edge_conditions (SpecOpposite).              *)
(***************************************************************************)
\* the predicate recover_edge_condition yields for the edge from the source
\* of the call, on the processor as it was before the call
PredicateTo(dst) ==
    recover_edge_condition(region.graph, region.blocks, opposite.src, dst,
                           opposite.m, opposite.exc).r

\* C29: have_opposite_edge_conditions returns true if and only if the
\* predicates recover_edge_condition yields for (src, dst0) and (src, dst1)
\* are negations of each other.
C29_FastPathAgrees ==
    sOp = "opposite" =>
        /\ ~opposite.raised
        /\ opposite.r = Equivalent(ClNot(PredicateTo(opposite.dst0)), PredicateTo(opposite.dst1))


(***************************************************************************)
(* Claims about code locations (SpecLocations).                            *)
(***************************************************************************)
\* C30: any two code locations, of either class, that compare equal hash to
\* the same value, and two locations built from the same arguments but
\* different keyword arguments compare equal and hash to the same value
C30_EqHashAgree ==
    \A a \in DOMAIN locations, b \in DOMAIN locations :
        LET Stripped(l) == [l EXCEPT !.info = Absent, !._hash = Absent]
        IN /\ __eq__(locations[a], locations[b]) =>
                  __hash__(locations[a]).r = __hash__(locations[b]).r
           /\ Stripped(locations[a]) = Stripped(locations[b]) =>
                  /\ __eq__(locations[a], locations[b])
                  /\ __hash__(locations[a]).r = __hash__(locations[b]).r

====
